---- MODULE Spec2Model ----
(***************************************************************************)
(* Write path of the Prompteka MCP server: PromptekaDatabaseAccessor       *)
(* (src/src/tools/write-tools.ts), its retry loop, its referential checks  *)
(* and restoreBackup, over a store of folders and prompts.                 *)
(*                                                                         *)
(* A folder row is [name, parent_id], a prompt row is [title, folder_id].  *)
(* The decorative columns (emoji, color, url, content) and the timestamps  *)
(* are plain values no modelled check reads; they are left out.            *)
(***************************************************************************)
EXTENDS Integers, Sequences, FiniteSets, TLC

\* folders, prompts: the two tables of the shared store, id -> row
\* pre:  the tables as they were when the last operation was called
\* last: the last operation called, its arguments and what it returned
\* hung: an operation entered a loop it never leaves
\* onDelete: what the store's schema does with the rows that reference a
\*       deleted folder; fixed when the store is created, never changed here
\* anomaly: how the store treats the next row-level write statement: "none"
\*       is a store that works; the others are the misbehaviour the
\*       read-back checks of the accessor are written against
\* cap:  how many folder ids and prompt ids the bounded id space holds
\* isOpen: the accessor's isOpen field
\* env:  what connect() finds: whether the database file opens, the store's
\*       schema_version, and whether the library's pragma() hands back rows
\*       or the bare value when called without options
VARIABLES folders, prompts, pre, last, hung, onDelete, anomaly, cap, isOpen, env, race, queue
vars == <<folders, prompts, pre, last, hung, onDelete, anomaly, cap, isOpen, env, race, queue>>

\* ------------------------------------------------------------------ bounds
MaxFolders == 3
MaxPrompts == 1
MaxSnapFolders == 2
MaxSnapPrompts == 1
\* the id space of the exploration with two prompts and few folders
FewFolders == 1
MorePrompts == 2

\* ------------------------------------------------------- program constants
maxRetries == 3
PROMPTEKA_SCHEMA_VERSION == 27
retryBackoffMs == 50

\* ---------------------------------------------------------------- universe
NULL == 0
FolderIds == 1..cap.folders
PromptIds == 101..(100 + cap.prompts)
\* ids of a snapshot's folders (the "old" ids of a backup file)
SnapIds == 201..(200 + MaxSnapFolders)

BusyMarker == "SQLITE_BUSY"
\* a folder name / prompt title that happens to contain the text SQLITE_BUSY
MarkedName == "notes on SQLITE_BUSY"
Names == {"Security", MarkedName}
Titles == {"Checklist", MarkedName}

\* `"name" in data` / `"parentId" in data` are false for these
AbsentName == "<absent>"
AbsentRef == -1

\* ------------------------------------------------------------------ errors
\* An error is its code and its message, the message kept as the fragments
\* it is concatenated from (fixed text, interpolated names and ids).
NoErr == [code |-> "OK", msg |-> <<>>]
Err(c, m) == [code |-> c, msg |-> m]
Failed(e) == e.code # "OK"

\* String.prototype.includes("SQLITE_BUSY") on a message: a fragment holds
\* the marker when it is the store's busy text or an interpolated name that
\* contains it.
BusyText == "SQLITE_BUSY: database is locked"
FragmentIncludesBusy(s) == s \in {BusyText, BusyMarker, MarkedName}
MessageIncludesBusy(e) == \E i \in 1..Len(e.msg) : FragmentIncludesBusy(e.msg[i])

BusyErr == Err("SQLITE_BUSY", <<BusyText>>)
ConstraintErr == Err("SQLITE_CONSTRAINT", <<"FOREIGN KEY constraint failed">>)
StackErr == Err("RangeError", <<"Maximum call stack size exceeded">>)

\* ------------------------------------------------------------------- store
\* The state of one transaction in progress: the two tables as the
\* transaction sees them, the exception thrown so far (NoErr: none), whether
\* a write statement has run, and the ids handed out by uuidv4().
\* `log` lists the statements run, `id` is the last id uuidv4() returned;
\* folderIdMap, importedFolders and importedPrompts are restoreBackup's locals.
Begin(F, P) ==
  [folders |-> F, prompts |-> P, err |-> NoErr, wrote |-> FALSE,
   used |-> DOMAIN F \cup DOMAIN P, full |-> FALSE, id |-> NULL, log |-> <<>>,
   folderIdMap |-> <<>>, importedFolders |-> 0, importedPrompts |-> 0]

Throw(st, e) == IF Failed(st.err) THEN st ELSE [st EXCEPT !.err = e]

Restrict(f, S) == [x \in S |-> f[x]]

\* A write statement takes the store's write lock when it starts; while the
\* host application holds it the statement fails with SQLITE_BUSY.
WriteLock(st, busy) ==
  IF Failed(st.err) THEN st
  ELSE IF busy /\ ~st.wrote THEN Throw(st, BusyErr)
  ELSE [st EXCEPT !.wrote = TRUE]

\* (mutant) the pragma is missing: references are not enforced
ForeignKeysOff == FALSE

\* pragma foreign_keys = ON
ForeignKeysOn == TRUE

\* The ON DELETE action of the schema's references to a folder. The schema
\* belongs to the host application: restoreBackup is written against
\* "cascade delete to handle children", recursivelyDeleteFolder against a
\* store that wants the children gone first (the default, NO ACTION).
OnDeleteActions == {"CASCADE", "SET NULL", "NO ACTION"}

RefOk(st, ref) == ~ForeignKeysOn \/ ref = NULL \/ ref \in DOMAIN st.folders

\* folders below `roots` (inclusive), by parent_id
RECURSIVE Subtree(_, _)
Subtree(F, roots) ==
  LET more == {f \in DOMAIN F : F[f].parent_id \in roots} \ roots
  IN IF more = {} THEN roots ELSE Subtree(F, roots \cup more)

\* uuidv4(): an id no row carries and none was handed out in this call.
\* Ids are opaque, so the least free one stands for any fresh one; when the
\* bounded id space is used up the call is marked `full` and the operation
\* is not taken.
ExhaustedErr == Err("<id space exhausted>", <<>>)
uuidv4(st, ids) ==
  IF Failed(st.err) THEN st
  ELSE IF ids \ st.used = {} THEN [st EXCEPT !.err = ExhaustedErr, !.full = TRUE]
  ELSE LET i == CHOOSE i \in ids \ st.used : \A j \in ids \ st.used : i <= j
       IN [st EXCEPT !.id = i, !.used = @ \cup {i}]

Logged(st, ev) == [st EXCEPT !.log = Append(@, ev)]

\* What a row-level write statement leaves in its table: `new` on a store
\* that works; `old` when the write is silently dropped; `new` without the
\* row `id` when the row is gone by the time the statement has run.
Anomalies == {"none", "ignored", "removed"}
Applied(old, new, id) ==
  IF anomaly = "ignored" THEN old
  ELSE IF anomaly = "removed" THEN Restrict(new, DOMAIN new \ {id})
  ELSE new

\* INSERT INTO folders (id, name, parent_id, ...) VALUES (...)
InsertFolder(st, busy, id, name, parent) ==
  LET s1 == WriteLock(st, busy)
  IN IF Failed(s1.err) THEN s1
     ELSE IF ~RefOk(s1, parent) THEN Throw(s1, ConstraintErr)
     ELSE Logged([s1 EXCEPT !.folders = Applied(@, (id :> [name |-> name, parent_id |-> parent]) @@ @, id)],
                 <<"insert folder", id>>)

\* INSERT INTO prompts (id, title, ..., folder_id, ...) VALUES (...)
InsertPrompt(st, busy, id, title, folder) ==
  LET s1 == WriteLock(st, busy)
  IN IF Failed(s1.err) THEN s1
     ELSE IF ~RefOk(s1, folder) THEN Throw(s1, ConstraintErr)
     ELSE Logged([s1 EXCEPT !.prompts = Applied(@, (id :> [title |-> title, folder_id |-> folder]) @@ @, id)],
                 <<"insert prompt", id>>)

\* DELETE FROM prompts WHERE folder_id = ?
DeletePromptsIn(st, busy, folderId) ==
  LET s1 == WriteLock(st, busy)
      keep == {p \in DOMAIN s1.prompts : s1.prompts[p].folder_id # folderId}
  IN IF Failed(s1.err) THEN s1
     ELSE Logged([s1 EXCEPT !.prompts = Restrict(@, keep)], <<"delete prompts in", folderId>>)

\* DELETE FROM prompts WHERE id = ?
DeletePromptRow(st, busy, id) ==
  LET s1 == WriteLock(st, busy)
  IN IF Failed(s1.err) THEN s1
     ELSE Logged([s1 EXCEPT !.prompts = Applied(@, Restrict(@, DOMAIN @ \ {id}), id)],
                 <<"delete prompt", id>>)

\* the folders table without the row id, its child folders made roots
Detached(F, id) ==
  [f \in DOMAIN F \ {id} |->
     IF F[f].parent_id = id THEN [F[f] EXCEPT !.parent_id = NULL] ELSE F[f]]

\* DELETE FROM folders WHERE id = ?  The rows that reference the deleted
\* folder are handled by the schema's ON DELETE action: CASCADE removes them
\* (write-tools.ts:2003 relies on it), SET NULL clears their reference, the
\* default NO ACTION refuses the delete. With foreign keys off the
\* referencing rows are left as they are.
DeleteFolderRow(st, busy, id) ==
  LET s1 == WriteLock(st, busy)
      F == s1.folders
      P == s1.prompts
      gone == Subtree(F, {id})
      referenced == (\E f \in DOMAIN F : F[f].parent_id = id)
                    \/ (\E p \in DOMAIN P : P[p].folder_id = id)
  IN IF Failed(s1.err) THEN s1
     ELSE IF id \notin DOMAIN F THEN Logged(s1, <<"delete folder", id>>)
     ELSE IF ~ForeignKeysOn
       THEN Logged([s1 EXCEPT !.folders = Applied(F, Restrict(F, DOMAIN F \ {id}), id)],
                   <<"delete folder", id>>)
     ELSE IF onDelete = "CASCADE"
       THEN Logged([s1 EXCEPT !.folders = Applied(F, Restrict(F, DOMAIN F \ gone), id),
                              !.prompts = IF anomaly = "ignored" THEN P
                                          ELSE Restrict(P, {p \in DOMAIN P : P[p].folder_id \notin gone})],
                   <<"delete folder", id>>)
     ELSE IF onDelete = "SET NULL"
       THEN Logged([s1 EXCEPT !.folders = Applied(F, Detached(F, id), id),
                              !.prompts = IF anomaly = "ignored" THEN P
                                          ELSE [p \in DOMAIN P |->
                                                  IF P[p].folder_id = id
                                                    THEN [P[p] EXCEPT !.folder_id = NULL]
                                                  ELSE P[p]]],
                   <<"delete folder", id>>)
     ELSE IF referenced THEN Throw(s1, ConstraintErr)
     ELSE Logged([s1 EXCEPT !.folders = Applied(F, Restrict(F, DOMAIN F \ {id}), id)],
                 <<"delete folder", id>>)

\* (mutant) folder_id is always set: an absent folderId clears the folder
UpdatePromptRowSetsFolder(st, busy, id, title, folder) ==
  LET s1 == WriteLock(st, busy)
      old == s1.prompts[id]
      new == [title |-> IF title = AbsentName THEN old.title ELSE title,
              folder_id |-> IF folder = AbsentRef THEN NULL ELSE folder]
  IN IF Failed(s1.err) THEN s1
     ELSE IF id \notin DOMAIN s1.prompts THEN Logged(s1, <<"update prompt", id>>)
     ELSE Logged([s1 EXCEPT !.prompts = Applied(@, [@ EXCEPT ![id] = new], id)],
                 <<"update prompt", id>>)

\* UPDATE prompts SET <fields present> WHERE id = ?
UpdatePromptRow(st, busy, id, title, folder) ==
  LET s1 == WriteLock(st, busy)
      old == s1.prompts[id]
      new == [title |-> IF title = AbsentName THEN old.title ELSE title,
              folder_id |-> IF folder = AbsentRef THEN old.folder_id ELSE folder]
  IN IF Failed(s1.err) THEN s1
     ELSE IF id \notin DOMAIN s1.prompts THEN Logged(s1, <<"update prompt", id>>)
     ELSE IF ~RefOk(s1, new.folder_id) THEN Throw(s1, ConstraintErr)
     ELSE Logged([s1 EXCEPT !.prompts = Applied(@, [@ EXCEPT ![id] = new], id)],
                 <<"update prompt", id>>)

\* UPDATE folders SET <fields present> WHERE id = ?
UpdateFolderRow(st, busy, id, name, parent) ==
  LET s1 == WriteLock(st, busy)
      old == s1.folders[id]
      new == [name |-> IF name = AbsentName THEN old.name ELSE name,
              parent_id |-> IF parent = AbsentRef THEN old.parent_id ELSE parent]
  IN IF Failed(s1.err) THEN s1
     ELSE IF id \notin DOMAIN s1.folders THEN Logged(s1, <<"update folder", id>>)
     ELSE IF ~RefOk(s1, new.parent_id) THEN Throw(s1, ConstraintErr)
     ELSE Logged([s1 EXCEPT !.folders = Applied(@, [@ EXCEPT ![id] = new], id)],
                 <<"update folder", id>>)

\* ------------------------------------------------- transactions and retry
\* (mutant) the statements run outside a transaction: nothing is rolled back
TransactionNoRollback(F, P, st) == Logged(st, <<"commit", NULL>>)

\* db.transaction(fn)(): BEGIN, run fn, COMMIT; when fn throws, ROLLBACK and
\* rethrow. F and P are the tables at BEGIN.
Transaction(F, P, st) ==
  IF Failed(st.err)
    THEN Logged([st EXCEPT !.folders = F, !.prompts = P], <<"rollback", NULL>>)
  ELSE Logged(st, <<"commit", NULL>>)

\* (mutant) off by one: the loop admits a fourth attempt
RECURSIVE RetryFromOffByOne(_, _, _, _, _, _)
RetryFromOffByOne(attempt, rBusy, rFree, nBusy, sleeps, tried) ==
  LET r == IF attempt < nBusy THEN rBusy ELSE rFree
  IN IF attempt > maxRetries
       THEN [st |-> r, attempts |-> attempt, sleeps |-> sleeps, tried |-> tried]
     ELSE IF ~Failed(r.err)
       THEN [st |-> r, attempts |-> attempt + 1, sleeps |-> sleeps,
             tried |-> Append(tried, r.err)]
     ELSE IF MessageIncludesBusy(r.err) /\ attempt < maxRetries
       THEN RetryFromOffByOne(attempt + 1, rBusy, rFree, nBusy,
                              Append(sleeps, retryBackoffMs * 2 ^ attempt),
                              Append(tried, r.err))
     ELSE [st |-> r, attempts |-> attempt + 1, sleeps |-> sleeps,
           tried |-> Append(tried, r.err)]

\* executeWithRetry(fn): rBusy is what fn() does while the host application
\* holds the write lock, rFree what it does otherwise; the host holds the
\* lock during the first nBusy attempts. Returns the last run of fn with the
\* number of attempts made, the sleeps taken between them and the error each
\* attempt ended with.
RECURSIVE RetryFrom(_, _, _, _, _, _)
RetryFrom(attempt, rBusy, rFree, nBusy, sleeps, tried) ==
  LET r == IF attempt < nBusy THEN rBusy ELSE rFree
  IN IF attempt >= maxRetries
       THEN [st |-> r, attempts |-> attempt, sleeps |-> sleeps, tried |-> tried]
     ELSE IF ~Failed(r.err)
       THEN [st |-> r, attempts |-> attempt + 1, sleeps |-> sleeps,
             tried |-> Append(tried, r.err)]
     ELSE IF MessageIncludesBusy(r.err) /\ attempt < maxRetries - 1
       THEN RetryFrom(attempt + 1, rBusy, rFree, nBusy,
                      Append(sleeps, retryBackoffMs * 2 ^ attempt),
                      Append(tried, r.err))
     ELSE [st |-> r, attempts |-> attempt + 1, sleeps |-> sleeps,
           tried |-> Append(tried, r.err)]

executeWithRetry(rBusy, rFree, nBusy) == RetryFrom(0, rBusy, rFree, nBusy, <<>>, <<>>)

\* What one call of an accessor method returns: the tables afterwards, the
\* error thrown (NoErr: returned normally), the attempts and sleeps of its
\* retry loop, and the statements of its last attempt.
Outcome(r) ==
  [folders |-> r.st.folders, prompts |-> r.st.prompts, err |-> r.st.err,
   attempts |-> r.attempts, sleeps |-> r.sleeps, tried |-> r.tried, log |-> r.st.log,
   full |-> r.st.full, id |-> r.st.id,
   importedFolders |-> r.st.importedFolders, importedPrompts |-> r.st.importedPrompts]

\* A precondition check threw before executeWithRetry was entered.
Rejected(F, P, e) ==
  [folders |-> F, prompts |-> P, err |-> e, attempts |-> 0, sleeps |-> <<>>,
   tried |-> <<>>, log |-> <<>>, full |-> FALSE, id |-> NULL,
   importedFolders |-> 0, importedPrompts |-> 0]

\* --------------------------------------------------- referential checks
\* getPrompt: the row of the prompt, folder_id reported as folderId; null
\* when there is no such row
getPrompt(P, id) ==
  IF id \notin DOMAIN P THEN NULL
  ELSE [id |-> id, title |-> P[id].title, folderId |-> P[id].folder_id]

folderExists(F, folderId) == folderId \in DOMAIN F
promptExists(P, promptId) == promptId \in DOMAIN P

\* wouldCreateCycle: walk parent_id from the proposed parent, stop at null
\* or at an id already visited.
RECURSIVE CycleWalk(_, _, _, _)
CycleWalk(F, folderId, currentId, visited) ==
  IF currentId = NULL \/ currentId \in visited THEN FALSE
  ELSE IF currentId = folderId THEN TRUE
  ELSE CycleWalk(F, folderId,
                 IF currentId \in DOMAIN F THEN F[currentId].parent_id ELSE NULL,
                 visited \cup {currentId})

\* (mutant) only the folder itself is recognised, not its descendants
wouldCreateCycleSelfOnly(F, folderId, potentialParentId) ==
  potentialParentId # NULL /\ folderId = potentialParentId

wouldCreateCycle(F, folderId, potentialParentId) ==
  IF potentialParentId = NULL THEN FALSE
  ELSE IF folderId = potentialParentId THEN TRUE
  ELSE CycleWalk(F, folderId, potentialParentId, {})

\* SELECT ... FROM folders WHERE name = ? AND parent_id IS ?  (.get(): the
\* first matching row of the scan, here the one with the least id)
findFolderByNameAndParent(F, name, parentId) ==
  LET m == {f \in DOMAIN F : F[f].name = name /\ F[f].parent_id = parentId}
  IN IF m = {} THEN NULL ELSE CHOOSE f \in m : \A g \in m : f <= g

\* SELECT ... FROM prompts WHERE title = ?  (.get(): first matching row)
findPromptByTitle(P, title) ==
  LET m == {p \in DOMAIN P : P[p].title = title}
  IN IF m = {} THEN NULL ELSE CHOOSE p \in m : \A q \in m : p <= q

\* ------------------------------------------------------ accessor methods
\* the read-back SELECT of a method, run inside its transaction function
ReadBack(st, id) == IF Failed(st.err) THEN st ELSE Logged(st, <<"read back", id>>)

VerifyErr(what) ==
  Err("DATABASE_ERROR", <<"Failed to verify ", what, " (read-back check failed)">>)

\* the transaction of createPrompt
createPromptTxn(F, P, busy, title, folderId) ==
  LET s0 == uuidv4(Begin(F, P), PromptIds)
      s1 == InsertPrompt(s0, busy, s0.id, title, folderId)
      s2 == IF ~Failed(s1.err) /\ s0.id \notin DOMAIN s1.prompts
              THEN Throw(ReadBack(s1, s0.id), VerifyErr("prompt was created"))
            ELSE ReadBack(s1, s0.id)
  IN Transaction(F, P, s2)

createPrompt(F, P, nBusy, title, folderId) ==
  IF folderId # NULL /\ ~folderExists(F, folderId)
    THEN Rejected(F, P, Err("FOLDER_NOT_FOUND",
                            <<"Folder '", ToString(folderId), "' does not exist">>))
  ELSE Outcome(executeWithRetry(createPromptTxn(F, P, TRUE, title, folderId),
                                createPromptTxn(F, P, FALSE, title, folderId), nBusy))

\* the transaction of updatePrompt; title and folderId are AbsentName and
\* AbsentRef when the request does not carry them
updatePromptTxn(F, P, busy, id, title, folderId) ==
  LET s0 == Begin(F, P)
      s1 == UpdatePromptRow(s0, busy, id, title, folderId)
      s2 == IF ~Failed(s1.err) /\ id \notin DOMAIN s1.prompts
              THEN Throw(ReadBack(s1, id), VerifyErr("prompt was updated"))
            ELSE ReadBack(s1, id)
  IN IF title = AbsentName /\ folderId = AbsentRef
       THEN Transaction(F, P, s0)
     ELSE Transaction(F, P, s2)

updatePrompt(F, P, nBusy, id, title, folderId) ==
  IF ~promptExists(P, id)
    THEN Rejected(F, P, Err("PROMPT_NOT_FOUND",
                            <<"Prompt '", ToString(id), "' does not exist">>))
  ELSE IF folderId # AbsentRef /\ folderId # NULL /\ ~folderExists(F, folderId)
    THEN Rejected(F, P, Err("FOLDER_NOT_FOUND",
                            <<"Folder '", ToString(folderId), "' does not exist">>))
  ELSE Outcome(executeWithRetry(updatePromptTxn(F, P, TRUE, id, title, folderId),
                                updatePromptTxn(F, P, FALSE, id, title, folderId), nBusy))

\* the transaction of deletePrompt
deletePromptTxn(F, P, busy, id) ==
  LET s1 == DeletePromptRow(Begin(F, P), busy, id)
      s2 == IF ~Failed(s1.err) /\ id \in DOMAIN s1.prompts
              THEN Throw(ReadBack(s1, id), VerifyErr("prompt was deleted"))
            ELSE ReadBack(s1, id)
  IN Transaction(F, P, s2)

\* deletePrompt without the existence check before the transaction
deletePromptNoExistsCheck(F, P, nBusy, id) ==
  Outcome(executeWithRetry(deletePromptTxn(F, P, TRUE, id),
                           deletePromptTxn(F, P, FALSE, id), nBusy))

deletePrompt(F, P, nBusy, id) ==
  IF ~promptExists(P, id)
    THEN Rejected(F, P, Err("PROMPT_NOT_FOUND",
                            <<"Prompt '", ToString(id), "' does not exist">>))
  ELSE Outcome(executeWithRetry(deletePromptTxn(F, P, TRUE, id),
                                deletePromptTxn(F, P, FALSE, id), nBusy))

\* (mutant) the UPDATE is left out: only the read-back runs
movePromptTxnNoUpdate(F, P, busy, promptId, targetFolderId) ==
  LET s1 == Begin(F, P)
      bad == promptId \notin DOMAIN s1.prompts
             \/ (targetFolderId # NULL /\ s1.prompts[promptId].folder_id # targetFolderId)
      s2 == IF bad
              THEN Throw(ReadBack(s1, promptId), VerifyErr("prompt was moved"))
            ELSE ReadBack(s1, promptId)
  IN Transaction(F, P, s2)

\* the transaction of movePrompt
movePromptTxn(F, P, busy, promptId, targetFolderId) ==
  LET s1 == UpdatePromptRow(Begin(F, P), busy, promptId, AbsentName, targetFolderId)
      bad == promptId \notin DOMAIN s1.prompts
             \/ (targetFolderId # NULL /\ s1.prompts[promptId].folder_id # targetFolderId)
      s2 == IF ~Failed(s1.err) /\ bad
              THEN Throw(ReadBack(s1, promptId), VerifyErr("prompt was moved"))
            ELSE ReadBack(s1, promptId)
  IN Transaction(F, P, s2)

\* (mutant) the target folder is not looked up before the transaction
movePromptNoFolderCheck(F, P, nBusy, promptId, targetFolderId) ==
  IF ~promptExists(P, promptId)
    THEN Rejected(F, P, Err("PROMPT_NOT_FOUND",
                            <<"Prompt '", ToString(promptId), "' does not exist">>))
  ELSE Outcome(executeWithRetry(movePromptTxn(F, P, TRUE, promptId, targetFolderId),
                                movePromptTxn(F, P, FALSE, promptId, targetFolderId), nBusy))

movePrompt(F, P, nBusy, promptId, targetFolderId) ==
  IF ~promptExists(P, promptId)
    THEN Rejected(F, P, Err("PROMPT_NOT_FOUND",
                            <<"Prompt '", ToString(promptId), "' does not exist">>))
  ELSE IF targetFolderId # NULL /\ ~folderExists(F, targetFolderId)
    THEN Rejected(F, P, Err("FOLDER_NOT_FOUND",
                            <<"Target folder '", ToString(targetFolderId), "' does not exist">>))
  ELSE Outcome(executeWithRetry(movePromptTxn(F, P, TRUE, promptId, targetFolderId),
                                movePromptTxn(F, P, FALSE, promptId, targetFolderId), nBusy))

\* the transaction of createFolder
createFolderTxn(F, P, busy, name, parentId) ==
  LET s0 == uuidv4(Begin(F, P), FolderIds)
      s1 == InsertFolder(s0, busy, s0.id, name, parentId)
      s2 == IF ~Failed(s1.err) /\ s0.id \notin DOMAIN s1.folders
              THEN Throw(ReadBack(s1, s0.id), VerifyErr("folder was created"))
            ELSE ReadBack(s1, s0.id)
  IN Transaction(F, P, s2)

DuplicateErr(name, where) ==
  Err("INVALID_INPUT", <<"A folder named '", name, "' already exists in ", where>>)

createFolder(F, P, nBusy, name, parentId) ==
  IF parentId # NULL /\ ~folderExists(F, parentId)
    THEN Rejected(F, P, Err("FOLDER_NOT_FOUND",
                            <<"Parent folder '", ToString(parentId), "' does not exist">>))
  ELSE IF findFolderByNameAndParent(F, name, parentId) # NULL
    THEN Rejected(F, P, DuplicateErr(name, "this location"))
  ELSE Outcome(executeWithRetry(createFolderTxn(F, P, TRUE, name, parentId),
                                createFolderTxn(F, P, FALSE, name, parentId), nBusy))

\* the transaction of updateFolder
updateFolderTxn(F, P, busy, id, name, parentId) ==
  LET s0 == Begin(F, P)
      s1 == UpdateFolderRow(s0, busy, id, name, parentId)
      s2 == IF ~Failed(s1.err) /\ id \notin DOMAIN s1.folders
              THEN Throw(ReadBack(s1, id), VerifyErr("folder was updated"))
            ELSE ReadBack(s1, id)
  IN IF name = AbsentName /\ parentId = AbsentRef
       THEN Transaction(F, P, s0)
     ELSE Transaction(F, P, s2)

CycleErr ==
  Err("INVALID_INPUT", <<"Cannot move folder - would create a circular hierarchy">>)

\* (mutant) the check looks under the folder's current parent only
updateFolderDuplicateOldParent(F, id, name, parentId) ==
  LET newName == IF name # AbsentName THEN name ELSE F[id].name
      existingFolder == findFolderByNameAndParent(F, newName, F[id].parent_id)
  IN (name # AbsentName \/ parentId # AbsentRef)
     /\ existingFolder # NULL /\ existingFolder # id

\* the sibling-name check of updateFolder, run when name or parentId is present
updateFolderDuplicate(F, id, name, parentId) ==
  LET newName == IF name # AbsentName THEN name ELSE F[id].name
      newParentId == IF parentId # AbsentRef THEN parentId ELSE F[id].parent_id
      existingFolder == findFolderByNameAndParent(F, newName, newParentId)
  IN (name # AbsentName \/ parentId # AbsentRef)
     /\ existingFolder # NULL /\ existingFolder # id

updateFolder(F, P, nBusy, id, name, parentId) ==
  IF ~folderExists(F, id)
    THEN Rejected(F, P, Err("FOLDER_NOT_FOUND",
                            <<"Folder '", ToString(id), "' does not exist">>))
  ELSE IF parentId # AbsentRef /\ parentId # NULL /\ ~folderExists(F, parentId)
    THEN Rejected(F, P, Err("FOLDER_NOT_FOUND",
                            <<"Parent folder '", ToString(parentId), "' does not exist">>))
  ELSE IF parentId # AbsentRef /\ wouldCreateCycle(F, id, parentId)
    THEN Rejected(F, P, CycleErr)
  ELSE IF updateFolderDuplicate(F, id, name, parentId)
    THEN Rejected(F, P, DuplicateErr(IF name # AbsentName THEN name ELSE F[id].name,
                                     "that location"))
  ELSE Outcome(executeWithRetry(updateFolderTxn(F, P, TRUE, id, name, parentId),
                                updateFolderTxn(F, P, FALSE, id, name, parentId), nBusy))

\* ----------------------------------------------------------- deleteFolder
\* the ids of a set, least first (the order rows come back from a scan)
RECURSIVE Ascending(_)
Ascending(S) ==
  IF S = {} THEN <<>>
  ELSE LET m == CHOOSE x \in S : \A y \in S : x <= y
       IN <<m>> \o Ascending(S \ {m})

\* recursivelyDeleteFolder: the children first, then the folder's prompts,
\* then the folder. `depth` counts the nested calls; a chain of calls longer
\* than the table has rows never ends, and the call stack overflows.
RECURSIVE recursivelyDeleteFolder(_, _, _, _)
RECURSIVE DeleteChildren(_, _, _, _)
DeleteChildren(st, busy, children, depth) ==
  IF children = <<>> \/ Failed(st.err) THEN st
  ELSE DeleteChildren(recursivelyDeleteFolder(st, busy, Head(children), depth + 1),
                      busy, Tail(children), depth)

\* (mutant) the children are not visited
recursivelyDeleteFolderFlat(st, busy, folderId, depth) ==
  DeleteFolderRow(DeletePromptsIn(st, busy, folderId), busy, folderId)

recursivelyDeleteFolder(st, busy, folderId, depth) ==
  LET F == st.folders
      children == Ascending({f \in DOMAIN F : F[f].parent_id = folderId})
      s1 == DeleteChildren(st, busy, children, depth)
      s2 == DeletePromptsIn(s1, busy, folderId)
  IN IF Failed(st.err) THEN st
     ELSE IF depth > MaxFolders + 1 THEN Throw(st, StackErr)
     ELSE DeleteFolderRow(s2, busy, folderId)

NotEmptyErr(n, what) ==
  Err("FOLDER_NOT_EMPTY",
      <<"Folder has ", ToString(n), what, ". Use recursive=true to delete with contents.">>)

\* (mutant) the non-recursive path counts the prompts only
deleteFolderTxnPromptsOnly(F, P, busy, id, recursive) ==
  LET s0 == Begin(F, P)
      nPrompts == Cardinality({p \in DOMAIN P : P[p].folder_id = id})
      s1 == IF ~recursive
              THEN IF nPrompts > 0 THEN Throw(s0, NotEmptyErr(nPrompts, " prompts"))
                   ELSE s0
            ELSE recursivelyDeleteFolder(s0, busy, id, 1)
      s2 == DeleteFolderRow(s1, busy, id)
      s3 == IF ~Failed(s2.err) /\ id \in DOMAIN s2.folders
              THEN Throw(ReadBack(s2, id), VerifyErr("folder was deleted"))
            ELSE ReadBack(s2, id)
  IN Transaction(F, P, s3)

\* the transaction of deleteFolder
deleteFolderTxn(F, P, busy, id, recursive) ==
  LET s0 == Begin(F, P)
      nPrompts == Cardinality({p \in DOMAIN P : P[p].folder_id = id})
      nSubfolders == Cardinality({f \in DOMAIN F : F[f].parent_id = id})
      s1 == IF ~recursive
              THEN IF nPrompts > 0 THEN Throw(s0, NotEmptyErr(nPrompts, " prompts"))
                   ELSE IF nSubfolders > 0 THEN Throw(s0, NotEmptyErr(nSubfolders, " subfolders"))
                   ELSE s0
            ELSE recursivelyDeleteFolder(s0, busy, id, 1)
      s2 == DeleteFolderRow(s1, busy, id)
      s3 == IF ~Failed(s2.err) /\ id \in DOMAIN s2.folders
              THEN Throw(ReadBack(s2, id), VerifyErr("folder was deleted"))
            ELSE ReadBack(s2, id)
  IN Transaction(F, P, s3)

deleteFolder(F, P, nBusy, id, recursive) ==
  IF ~folderExists(F, id)
    THEN Rejected(F, P, Err("FOLDER_NOT_FOUND",
                            <<"Folder '", ToString(id), "' does not exist">>))
  ELSE Outcome(executeWithRetry(deleteFolderTxn(F, P, TRUE, id, recursive),
                                deleteFolderTxn(F, P, FALSE, id, recursive), nBusy))

\* ---------------------------------------------------------- restoreBackup
\* allFolders.find((f) => f.id === id): the position of the first match, 0 if none
FindById(allFolders, id) ==
  LET m == {i \in 1..Len(allFolders) : allFolders[i].id = id}
  IN IF m = {} THEN 0 ELSE CHOOSE i \in m : \A j \in m : i <= j

\* getFolderDepth: the loop `while (currentParentId)`. A walk that has taken
\* more steps than there are folders is inside a parent cycle of the
\* snapshot and never leaves the loop: Diverges.
Diverges == -1
RECURSIVE DepthWalk(_, _, _)
DepthWalk(allFolders, currentParentId, depth) ==
  LET i == FindById(allFolders, currentParentId)
  IN IF currentParentId = NULL THEN depth
     ELSE IF depth > Len(allFolders) THEN Diverges
     ELSE IF i = 0 THEN depth + 1
     ELSE DepthWalk(allFolders, allFolders[i].parent_id, depth + 1)

getFolderDepth(folder, allFolders) == DepthWalk(allFolders, folder.parent_id, 0)

\* [...backupFolders].sort((a, b) => depth(a) - depth(b)): a stable sort
RECURSIVE InsertByDepth(_, _, _)
InsertByDepth(sorted, folder, allFolders) ==
  IF sorted = <<>> THEN <<folder>>
  ELSE IF getFolderDepth(sorted[Len(sorted)], allFolders) <= getFolderDepth(folder, allFolders)
    THEN Append(sorted, folder)
  ELSE Append(InsertByDepth(SubSeq(sorted, 1, Len(sorted) - 1), folder, allFolders),
              sorted[Len(sorted)])

RECURSIVE SortPrefix(_, _)
SortPrefix(allFolders, n) ==
  IF n = 0 THEN <<>>
  ELSE InsertByDepth(SortPrefix(allFolders, n - 1), allFolders[n], allFolders)

\* (mutant) the folders are taken in the order of the input
sortedFoldersAsGiven(backupFolders) == backupFolders

sortedFolders(backupFolders) == SortPrefix(backupFolders, Len(backupFolders))

\* The comparator runs only when there are two folders to compare; it then
\* reaches every folder, and never returns on one whose chain cycles.
SortHangs(backupFolders) ==
  Len(backupFolders) >= 2
  /\ \E i \in 1..Len(backupFolders) :
       getFolderDepth(backupFolders[i], backupFolders) = Diverges

MapGet(map, key) == IF key \in DOMAIN map THEN map[key] ELSE NULL

\* (mutant) a matching live folder is not looked for: every snapshot folder
\* is created
RestoreFolderNoMatch(st, busy, folder, overwrite) ==
  LET mappedParentId == IF folder.parent_id # NULL
                          THEN MapGet(st.folderIdMap, folder.parent_id) ELSE NULL
      s2 == uuidv4(st, FolderIds)
      s3 == InsertFolder(s2, busy, s2.id, folder.name, mappedParentId)
  IN IF Failed(st.err) THEN st
     ELSE IF folder.parent_id # NULL /\ mappedParentId = NULL
       THEN Throw(st, Err("INVALID_INPUT",
                          <<"Folder '", folder.name, "' references parent folder '",
                            ToString(folder.parent_id), "' which was not found in backup">>))
     ELSE IF Failed(s3.err) THEN s3
     ELSE [s3 EXCEPT !.folderIdMap = (folder.id :> s2.id) @@ @,
                     !.importedFolders = @ + 1]

\* Phase 1, one folder of the sorted snapshot
RestoreFolder(st, busy, folder, overwrite) ==
  LET mappedParentId == IF folder.parent_id # NULL
                          THEN MapGet(st.folderIdMap, folder.parent_id) ELSE NULL
      existingFolder == findFolderByNameAndParent(st.folders, folder.name, mappedParentId)
      s1 == IF existingFolder # NULL
              THEN DeleteFolderRow(DeletePromptsIn(st, busy, existingFolder),
                                   busy, existingFolder)
            ELSE st
      s2 == uuidv4(s1, FolderIds)
      s3 == InsertFolder(s2, busy, s2.id, folder.name, mappedParentId)
      s4 == IF ~Failed(s3.err) /\ s2.id \notin DOMAIN s3.folders
              THEN Throw(s3, Err("DATABASE_ERROR",
                                 <<"Failed to create folder '", folder.name, "' in backup restore">>))
            ELSE s3
  IN IF Failed(st.err) THEN st
     ELSE IF folder.parent_id # NULL /\ mappedParentId = NULL
       THEN Throw(st, Err("INVALID_INPUT",
                          <<"Folder '", folder.name, "' references parent folder '",
                            ToString(folder.parent_id), "' which was not found in backup">>))
     ELSE IF existingFolder # NULL /\ ~overwrite
       THEN [st EXCEPT !.folderIdMap = (folder.id :> existingFolder) @@ @]
     ELSE IF Failed(s4.err) THEN s4
     ELSE [s4 EXCEPT !.folderIdMap = (folder.id :> s2.id) @@ @,
                     !.importedFolders = @ + 1]

\* (mutant) a folder reference the id map does not hold is taken as no folder
RestorePromptUnmappedToRoot(st, busy, prompt, overwrite) ==
  LET mappedFolderId == IF prompt.folder_id # NULL
                          THEN MapGet(st.folderIdMap, prompt.folder_id) ELSE NULL
      existingPrompt == findPromptByTitle(st.prompts, prompt.title)
      s1 == IF existingPrompt # NULL THEN DeletePromptRow(st, busy, existingPrompt) ELSE st
      s2 == uuidv4(s1, PromptIds)
      s3 == InsertPrompt(s2, busy, s2.id, prompt.title, mappedFolderId)
  IN IF Failed(st.err) THEN st
     ELSE IF existingPrompt # NULL /\ ~overwrite THEN st
     ELSE IF Failed(s3.err) THEN s3
     ELSE [s3 EXCEPT !.importedPrompts = @ + 1]

\* Phase 2, one prompt of the snapshot
RestorePrompt(st, busy, prompt, overwrite) ==
  LET mappedFolderId == IF prompt.folder_id # NULL
                          THEN MapGet(st.folderIdMap, prompt.folder_id) ELSE NULL
      existingPrompt == findPromptByTitle(st.prompts, prompt.title)
      s1 == IF existingPrompt # NULL THEN DeletePromptRow(st, busy, existingPrompt) ELSE st
      s2 == uuidv4(s1, PromptIds)
      s3 == InsertPrompt(s2, busy, s2.id, prompt.title, mappedFolderId)
      s4 == IF ~Failed(s3.err) /\ s2.id \notin DOMAIN s3.prompts
              THEN Throw(s3, Err("DATABASE_ERROR",
                                 <<"Failed to create prompt '", prompt.title, "' in backup restore">>))
            ELSE s3
  IN IF Failed(st.err) THEN st
     ELSE IF prompt.folder_id # NULL /\ mappedFolderId = NULL
       THEN Throw(st, Err("INVALID_INPUT",
                          <<"Prompt '", prompt.title, "' references folder '",
                            ToString(prompt.folder_id), "' which was not found in backup">>))
     ELSE IF existingPrompt # NULL /\ ~overwrite THEN st
     ELSE IF Failed(s4.err) THEN s4
     ELSE [s4 EXCEPT !.importedPrompts = @ + 1]

RECURSIVE RestoreFolders(_, _, _, _)
RestoreFolders(st, busy, sorted, overwrite) ==
  IF sorted = <<>> THEN st
  ELSE RestoreFolders(RestoreFolder(st, busy, Head(sorted), overwrite),
                      busy, Tail(sorted), overwrite)

RECURSIVE RestorePrompts(_, _, _, _)
RestorePrompts(st, busy, backupPrompts, overwrite) ==
  IF backupPrompts = <<>> THEN st
  ELSE RestorePrompts(RestorePrompt(st, busy, Head(backupPrompts), overwrite),
                      busy, Tail(backupPrompts), overwrite)

\* the transaction of restoreBackup
restoreBackupTxn(F, P, busy, backupFolders, backupPrompts, overwrite) ==
  LET s1 == RestoreFolders(Begin(F, P), busy, sortedFolders(backupFolders), overwrite)
      s2 == RestorePrompts(s1, busy, backupPrompts, overwrite)
  IN Transaction(F, P, s2)

restoreBackup(F, P, nBusy, backupFolders, backupPrompts, overwrite) ==
  Outcome(executeWithRetry(
            restoreBackupTxn(F, P, TRUE, backupFolders, backupPrompts, overwrite),
            restoreBackupTxn(F, P, FALSE, backupFolders, backupPrompts, overwrite), nBusy))

\* ---------------------------------------------------------- tool handlers
\* ErrorCatalog of error-taxonomy.ts: retry guidance and the message shown
\* to the caller, per error code
ErrorCatalog ==
  [INVALID_INPUT |-> [retryable |-> FALSE,
                      userFacingMessage |-> "Please check your input and try again"],
   INVALID_EMOJI |-> [retryable |-> FALSE,
                      userFacingMessage |-> "Please use a single emoji or emoji pair"],
   INVALID_COLOR |-> [retryable |-> FALSE,
                      userFacingMessage |-> "Please select a valid color"],
   INVALID_UUID |-> [retryable |-> FALSE,
                     userFacingMessage |-> "The ID format is invalid"],
   PAYLOAD_TOO_LARGE |-> [retryable |-> FALSE,
                          userFacingMessage |-> "Prompt content is too large. Maximum 100KB allowed"],
   FOLDER_NOT_FOUND |-> [retryable |-> FALSE,
                         userFacingMessage |-> "The folder was not found. Please check the folder ID"],
   PROMPT_NOT_FOUND |-> [retryable |-> FALSE,
                         userFacingMessage |-> "The prompt was not found. Please check the prompt ID"],
   FOLDER_NOT_EMPTY |-> [retryable |-> FALSE,
                         userFacingMessage |-> "Cannot delete folder with contents. Set recursive=true to delete with contents"],
   PARENT_FOLDER_NOT_FOUND |-> [retryable |-> FALSE,
                                userFacingMessage |-> "The parent folder was not found"],
   DATABASE_ERROR |-> [retryable |-> TRUE,
                       userFacingMessage |-> "Database error. Please try again"],
   QUEUE_FULL |-> [retryable |-> TRUE,
                   userFacingMessage |-> "Too many pending operations. Please wait and retry"],
   PERMISSION_DENIED |-> [retryable |-> FALSE,
                          userFacingMessage |-> "Permission denied. Check queue directory permissions"],
   RESPONSE_TIMEOUT |-> [retryable |-> TRUE,
                         userFacingMessage |-> "Operation timeout. Check Prompteka app is running"],
   INTERNAL_ERROR |-> [retryable |-> FALSE,
                       userFacingMessage |-> "An unexpected error occurred. Please check the logs for details"]]

ErrorCodes == DOMAIN ErrorCatalog
getErrorDetails(code) == ErrorCatalog[code]
isRetryable(code) == getErrorDetails(code).retryable

\* error instanceof PromptekaMCPError: the errors the accessor and the
\* validators construct carry a catalogue code; what the store driver or
\* the runtime throws does not
IsPromptekaMCPError(e) == e.code \in ErrorCodes

\* the tool a call of the accessor comes from (handler and method are one
\* call here); a handler that returns before it calls the accessor is
\* recorded under the tool's own name
Tools ==
  {"create_prompt", "update_prompt", "delete_prompt", "create_folder",
   "update_folder", "delete_folder", "move_prompt"}
ToolOf(op) ==
  CASE op = "createPrompt" -> "create_prompt"
    [] op = "updatePrompt" -> "update_prompt"
    [] op = "deletePrompt" -> "delete_prompt"
    [] op = "createFolder" -> "create_folder"
    [] op = "updateFolder" -> "update_folder"
    [] op = "deleteFolder" -> "delete_folder"
    [] op = "movePrompt" -> "move_prompt"
    [] OTHER -> op

\* the message of a handler's last catch branch
FailText(tool) ==
  CASE tool = "create_prompt" -> "Failed to create prompt"
    [] tool = "update_prompt" -> "Failed to update prompt"
    [] tool = "delete_prompt" -> "Failed to delete prompt"
    [] tool = "create_folder" -> "Failed to create folder"
    [] tool = "update_folder" -> "Failed to update folder"
    [] tool = "delete_folder" -> "Failed to delete folder"
    [] tool = "move_prompt" -> "Failed to move prompt"

\* the message of a handler's success branch
SuccessText(tool, args) ==
  CASE tool = "create_prompt" -> <<"Prompt '", args.name, "' created successfully">>
    [] tool = "update_prompt" -> <<"Prompt updated successfully">>
    [] tool = "delete_prompt" -> <<"Prompt deleted successfully">>
    [] tool = "create_folder" -> <<"Folder '", args.name, "' created successfully">>
    [] tool = "update_folder" -> <<"Folder updated successfully">>
    [] tool = "delete_folder" -> <<"Folder deleted successfully">>
    [] tool = "move_prompt" -> <<"Prompt moved successfully">>

\* no handler of the tool layer has returned (restoreBackup is called on the
\* accessor; a call that never returns has no outcome)
NoResponse == [status |-> "none", error |-> "", message |-> <<>>]

\* (mutant) the catch branch passes the error's own text on
HandlerOutcomeRawText(tool, args, e) ==
  IF tool \notin Tools THEN NoResponse
  ELSE IF ~Failed(e) THEN [status |-> "success", error |-> "", message |-> SuccessText(tool, args)]
  ELSE [status |-> "error",
        error |-> IF IsPromptekaMCPError(e) THEN e.code ELSE "INTERNAL_ERROR",
        message |-> e.msg]

\* what a handler returns: the try block's result, or one of the two
\* branches of its catch
HandlerOutcome(tool, args, e) ==
  IF tool \notin Tools THEN NoResponse
  ELSE IF ~Failed(e)
    THEN [status |-> "success", error |-> "", message |-> SuccessText(tool, args)]
  ELSE IF IsPromptekaMCPError(e)
    THEN [status |-> "error", error |-> e.code,
          message |-> <<getErrorDetails(e.code).userFacingMessage>>]
  ELSE [status |-> "error", error |-> "INTERNAL_ERROR", message |-> <<FailText(tool)>>]

\* validateBooleanOrNull(value, defaultValue): what it returns, or throws
validateBooleanOrNull(value, defaultValue) ==
  IF value \in {"null", "undefined"} THEN [err |-> NoErr, value |-> defaultValue]
  ELSE IF value \notin {"true", "false"}
    THEN [err |-> Err("INVALID_INPUT", <<"Value must be a boolean">>), value |-> FALSE]
  ELSE [err |-> NoErr, value |-> (value = "true")]

\* ------------------------------------------------------------ connection
\* The schema_version values tried: the one the accessor expects and its
\* neighbours.
SchemaVersions ==
  {PROMPTEKA_SCHEMA_VERSION - 1, PROMPTEKA_SCHEMA_VERSION, PROMPTEKA_SCHEMA_VERSION + 1}

Environments ==
  [opens : BOOLEAN, schema_version : SchemaVersions, pragmaRows : BOOLEAN]

\* a file that opens, holds the expected version, read through a pragma()
\* that hands back the bare value
MatchingStore ==
  [opens |-> TRUE, schema_version |-> PROMPTEKA_SCHEMA_VERSION, pragmaRows |-> FALSE]

\* db.pragma("schema_version", options): the bare number with
\* { simple: true }; without options the rows, an array holding one object
pragma(e, simple) ==
  IF simple \/ ~e.pragmaRows
    THEN [type |-> "number", value |-> e.schema_version]
  ELSE [type |-> "object", value |-> e.schema_version]

\* a !== n for a pragma result a and a number n
StrictlyUnequal(a, n) == a.type # "number" \/ a.value # n

\* how a template literal prints a pragma result
Interpolated(a) == IF a.type = "number" THEN ToString(a.value) ELSE "[object Object]"

OpenFailedText == "unable to open database file"

SchemaMismatchText(a) ==
  <<"Database schema mismatch: expected version ",
    ToString(PROMPTEKA_SCHEMA_VERSION), ", got ", Interpolated(a)>>

\* the catch branch of connect wraps whatever was thrown in the try block
ConnectErr(text) == Err("DATABASE_ERROR", <<"Failed to connect to database: ">> \o text)

\* (mutant) the version read from the store is not compared
connectAnyVersion(open, e) ==
  IF open THEN [isOpen |-> TRUE, err |-> NoErr]
  ELSE IF ~e.opens THEN [isOpen |-> FALSE, err |-> ConnectErr(<<OpenFailedText>>)]
  ELSE [isOpen |-> TRUE, err |-> NoErr]

\* connect(): the value of isOpen it leaves, and what it throws
connect(open, e) ==
  LET schemaVersion == pragma(e, FALSE)
  IN IF open THEN [isOpen |-> TRUE, err |-> NoErr]
     ELSE IF ~e.opens THEN [isOpen |-> FALSE, err |-> ConnectErr(<<OpenFailedText>>)]
     ELSE IF StrictlyUnequal(schemaVersion, PROMPTEKA_SCHEMA_VERSION)
       THEN [isOpen |-> FALSE, err |-> ConnectErr(SchemaMismatchText(schemaVersion))]
     ELSE [isOpen |-> TRUE, err |-> NoErr]

\* what the checks at the top of a handler throw on a request that is no
\* object, or whose id is no UUID (validateUUID puts the value in its message)
MalformedKinds == {"not an object", "id not a UUID"}
validateRequest(kind) ==
  IF kind = "not an object" THEN Err("INVALID_INPUT", <<"Input must be an object">>)
  ELSE Err("INVALID_UUID", <<"Invalid UUID format: ", "not-a-uuid">>)

ConfirmErr ==
  Err("INVALID_INPUT",
      <<"Deletion requires explicit confirmation. Set confirmDelete to true to proceed.">>)

\* the handler reaches db.deletePrompt / db.deleteFolder
Confirmed(confirmDelete) ==
  LET c == validateBooleanOrNull(confirmDelete, FALSE)
  IN ~Failed(c.err) /\ c.value

\* (mutant) the confirmation is read and not required
handleDeletePromptUnguarded(F, P, nBusy, id, confirmDelete) ==
  LET c == validateBooleanOrNull(confirmDelete, FALSE)
  IN IF Failed(c.err) THEN Rejected(F, P, c.err)
     ELSE deletePrompt(F, P, nBusy, id)

\* handleDeletePrompt, up to the outcome of the accessor call
handleDeletePrompt(F, P, nBusy, id, confirmDelete) ==
  LET c == validateBooleanOrNull(confirmDelete, FALSE)
  IN IF Failed(c.err) THEN Rejected(F, P, c.err)
     ELSE IF ~c.value THEN Rejected(F, P, ConfirmErr)
     ELSE deletePrompt(F, P, nBusy, id)

\* handleDeleteFolder, up to the outcome of the accessor call
handleDeleteFolder(F, P, nBusy, id, recursive, confirmDelete) ==
  LET r == validateBooleanOrNull(recursive, FALSE)
      c == validateBooleanOrNull(confirmDelete, FALSE)
  IN IF Failed(r.err) THEN Rejected(F, P, r.err)
     ELSE IF Failed(c.err) THEN Rejected(F, P, c.err)
     ELSE IF ~c.value THEN Rejected(F, P, ConfirmErr)
     ELSE deleteFolder(F, P, nBusy, id, r.value)

\* ------------------------------------------------------------------ inputs
\* what a request may carry as confirmDelete: true, false, null, nothing,
\* or something that is no boolean
ConfirmValues == {"true", "false", "null", "undefined", "yes"}
\* how many attempts of one call find the host application holding the lock
BusyRuns == 0..maxRetries

\* Snapshots: the i-th folder record carries the i-th snapshot id (ids are
\* opaque); its parent_id is any snapshot id or null, so a child may precede
\* its parent, reference a folder the snapshot lacks, or lie on a cycle.
SnapRefs == {NULL} \cup SnapIds
BackupFolderSeqs ==
  UNION {{s \in [1..n -> [id : SnapIds, name : Names, parent_id : SnapRefs]] :
            \A i \in 1..n : s[i].id = 200 + i} : n \in 0..MaxSnapFolders}
BackupPromptSeqs ==
  UNION {[1..n -> [title : Titles, folder_id : SnapRefs]] : n \in 0..MaxSnapPrompts}

\* ----------------------------------------------------------------- actions
NoArgs ==
  [id |-> NULL, name |-> AbsentName, ref |-> AbsentRef, flag |-> FALSE,
   confirm |-> "undefined", malformed |-> "no", issue |-> 1,
   backupFolders |-> <<>>, backupPrompts |-> <<>>]

\* One call of an accessor method: the tables become what the call left,
\* `pre` keeps what they were, `last` what was asked and what came back.
\* every accessor method starts with ensureConnected(), which returns at
\* once when isOpen
Idle == ~hung /\ last.op = "none" /\ isOpen

Call(op, args, out) ==
  /\ ~out.full
  /\ folders' = out.folders
  /\ prompts' = out.prompts
  /\ pre' = [folders |-> folders, prompts |-> prompts]
  /\ last' = [op |-> op, args |-> args, err |-> out.err, attempts |-> out.attempts,
              sleeps |-> out.sleeps, tried |-> out.tried, log |-> out.log,
              newId |-> out.id,
              importedFolders |-> out.importedFolders,
              importedPrompts |-> out.importedPrompts,
              response |-> HandlerOutcome(ToolOf(op), args, out.err)]
  /\ UNCHANGED <<hung, onDelete, anomaly, cap, isOpen, env, race, queue>>

CreatePrompt ==
  /\ Idle
  /\ \E title \in Titles, folderId \in FolderIds \cup {NULL} :
       \E out \in {createPrompt(folders, prompts, nBusy, title, folderId) : nBusy \in BusyRuns} :
         Call("createPrompt", [NoArgs EXCEPT !.name = title, !.ref = folderId], out)

UpdatePrompt ==
  /\ Idle
  /\ \E id \in PromptIds, title \in Titles \cup {AbsentName},
        folderId \in FolderIds \cup {NULL, AbsentRef} :
       \E out \in {updatePrompt(folders, prompts, nBusy, id, title, folderId) : nBusy \in BusyRuns} :
         Call("updatePrompt", [NoArgs EXCEPT !.id = id, !.name = title, !.ref = folderId], out)

DeletePrompt ==
  /\ Idle
  /\ \E id \in PromptIds, confirmDelete \in ConfirmValues :
       \E out \in {handleDeletePrompt(folders, prompts, nBusy, id, confirmDelete) :
                     nBusy \in BusyRuns} :
         Call(IF Confirmed(confirmDelete) THEN "deletePrompt" ELSE "delete_prompt",
              [NoArgs EXCEPT !.id = id, !.confirm = confirmDelete], out)

MovePrompt ==
  /\ Idle
  /\ \E promptId \in PromptIds, targetFolderId \in FolderIds \cup {NULL} :
       \E out \in {movePrompt(folders, prompts, nBusy, promptId, targetFolderId) :
                     nBusy \in BusyRuns} :
         Call("movePrompt", [NoArgs EXCEPT !.id = promptId, !.ref = targetFolderId], out)

CreateFolder ==
  /\ Idle
  /\ \E name \in Names, parentId \in FolderIds \cup {NULL} :
       \E out \in {createFolder(folders, prompts, nBusy, name, parentId) : nBusy \in BusyRuns} :
         Call("createFolder", [NoArgs EXCEPT !.name = name, !.ref = parentId], out)

UpdateFolder ==
  /\ Idle
  /\ \E id \in FolderIds, name \in Names \cup {AbsentName},
        parentId \in FolderIds \cup {NULL, AbsentRef} :
       \E out \in {updateFolder(folders, prompts, nBusy, id, name, parentId) : nBusy \in BusyRuns} :
         Call("updateFolder", [NoArgs EXCEPT !.id = id, !.name = name, !.ref = parentId], out)

DeleteFolder ==
  /\ Idle
  /\ \E id \in FolderIds, recursive \in BOOLEAN, confirmDelete \in ConfirmValues :
       \E out \in {handleDeleteFolder(folders, prompts, nBusy, id,
                                       IF recursive THEN "true" ELSE "false", confirmDelete) :
                     nBusy \in BusyRuns} :
         Call(IF Confirmed(confirmDelete) THEN "deleteFolder" ELSE "delete_folder",
              [NoArgs EXCEPT !.id = id, !.flag = recursive, !.confirm = confirmDelete], out)

RestoreBackup ==
  /\ Idle
  /\ \E backupFolders \in BackupFolderSeqs, backupPrompts \in BackupPromptSeqs,
        overwrite \in BOOLEAN :
       /\ ~SortHangs(backupFolders)
       /\ \E out \in {restoreBackup(folders, prompts, nBusy, backupFolders, backupPrompts,
                                    overwrite) : nBusy \in BusyRuns} :
            Call("restoreBackup",
                 [NoArgs EXCEPT !.flag = overwrite, !.backupFolders = backupFolders,
                                !.backupPrompts = backupPrompts], out)

\* A handler is called with a request its validation refuses: it returns
\* from its catch branch without calling the accessor.
BadRequest ==
  /\ ~hung
  /\ last.op = "none"
  /\ \E tool \in Tools, kind \in MalformedKinds :
       Call(tool, [NoArgs EXCEPT !.malformed = kind],
            Rejected(folders, prompts, validateRequest(kind)))

\* restoreBackup on a snapshot whose sort never returns: the call is entered
\* and nothing after it runs (the sort reads the folders only).
RestoreBackupHangs ==
  /\ Idle
  /\ \E backupFolders \in BackupFolderSeqs :
       /\ SortHangs(backupFolders)
       /\ hung' = TRUE
       /\ pre' = [folders |-> folders, prompts |-> prompts]
       /\ last' = [op |-> "restoreBackup",
                   args |-> [NoArgs EXCEPT !.backupFolders = backupFolders],
                   err |-> NoErr, attempts |-> 1, sleeps |-> <<>>, tried |-> <<>>,
                   log |-> <<>>, newId |-> NULL,
                   importedFolders |-> 0, importedPrompts |-> 0,
                   response |-> NoResponse]
       /\ UNCHANGED <<folders, prompts, onDelete, anomaly, cap, isOpen, env, race, queue>>

EmptyTable == [x \in {} |-> x]

NoCall ==
  [op |-> "none", args |-> NoArgs, err |-> NoErr, attempts |-> 0,
   sleeps |-> <<>>, tried |-> <<>>, log |-> <<>>, newId |-> NULL,
   importedFolders |-> 0, importedPrompts |-> 0, response |-> NoResponse]

\* The caller has the result of the last call; the next call may start.
Return ==
  /\ ~hung
  /\ last.op # "none"
  /\ last' = NoCall
  /\ pre' = [folders |-> folders, prompts |-> prompts]
  /\ UNCHANGED <<folders, prompts, hung, onDelete, anomaly, cap, isOpen, env, race, queue>>

\* ------------------------------------------------ processes on one store
\* The store is one SQLite file that the host application owns and that every
\* process of the accessor opens for itself. `race` follows such processes
\* statement by statement: what each has asked, where it stands in its
\* method, who holds the write lock, and every commit in the order it
\* happened.
Writers == {1, 2}

\* The index the host's schema puts on a folder's name: none, UNIQUE (name,
\* parent_id), which SQL never applies to rows whose parent_id is null, or
\* one that covers the root folders too. The schema is the host's.
UniqueIndexes == {"none", "non-null parents", "all parents"}

IdleWriter ==
  [pc |-> "idle", op |-> "none", args |-> NoArgs, attempt |-> 0, err |-> NoErr,
   view |-> [folders |-> EmptyTable, prompts |-> EmptyTable]]

NoRace ==
  [lock |-> 0, unique |-> "none", hostWrites |-> 0,
   w |-> [x \in Writers |-> IdleWriter], commits |-> <<>>]

\* ------------------------------------------------ the queue transport
\* ImportQueueWriter hands a request to the host as a file of the queue
\* directory and polls for the host's response file. `queue` is the
\* directory and the one write() in progress: the operation files of
\* others, this writer's own, the response files, what the host has applied,
\* and where write() stands.
timeoutMs == 5000
queueMaxRetries == 2
queueRetryBackoffMs == 1000
pollMs == 50
QueueDepthLimit == 1000
FirstOperationId == 301

NoQueue ==
  [pc |-> "idle", operationId |-> NULL, attempt |-> 0, elapsed |-> 0,
   payload |-> "small", access |-> TRUE, depthAtCall |-> 0,
   others |-> 0, mine |-> {}, responses |-> {}, applied |-> <<>>,
   written |-> <<>>, waits |-> <<>>, sleeps |-> <<>>, thrown |-> <<>>,
   err |-> NoErr, calls |-> 0]

Init ==
  /\ folders = EmptyTable
  /\ prompts = EmptyTable
  /\ pre = [folders |-> EmptyTable, prompts |-> EmptyTable]
  /\ last = NoCall
  /\ hung = FALSE
  /\ onDelete \in OnDeleteActions
  /\ anomaly = "none"
  /\ cap = [folders |-> MaxFolders, prompts |-> MaxPrompts]
  /\ isOpen = TRUE
  /\ env = MatchingStore
  /\ race = NoRace
  /\ queue = NoQueue

Next ==
  \/ CreatePrompt
  \/ UpdatePrompt
  \/ DeletePrompt
  \/ MovePrompt
  \/ CreateFolder
  \/ UpdateFolder
  \/ DeleteFolder
  \/ RestoreBackup
  \/ RestoreBackupHangs
  \/ BadRequest
  \/ Return

Spec == Init /\ [][Next]_vars

\* ------------------------------------------- a store that misbehaves
\* The small id space: few folders, two prompts.
InitSmall ==
  /\ folders = EmptyTable
  /\ prompts = EmptyTable
  /\ pre = [folders |-> EmptyTable, prompts |-> EmptyTable]
  /\ last = NoCall
  /\ hung = FALSE
  /\ onDelete \in OnDeleteActions
  /\ anomaly = "none"
  /\ cap = [folders |-> FewFolders, prompts |-> MorePrompts]
  /\ isOpen = TRUE
  /\ env = MatchingStore
  /\ race = NoRace
  /\ queue = NoQueue

\* The call the request (op, a) leads to: the accessor method, or for the
\* delete tools the handler that guards it.
Request(op, F, P, nBusy, a) ==
  CASE op = "createPrompt" -> createPrompt(F, P, nBusy, a.name, a.ref)
    [] op = "updatePrompt" -> updatePrompt(F, P, nBusy, a.id, a.name, a.ref)
    [] op = "deletePrompt" -> handleDeletePrompt(F, P, nBusy, a.id, a.confirm)
    [] op = "movePrompt" -> movePrompt(F, P, nBusy, a.id, a.ref)
    [] op = "createFolder" -> createFolder(F, P, nBusy, a.name, a.ref)
    [] op = "updateFolder" -> updateFolder(F, P, nBusy, a.id, a.name, a.ref)
    [] op = "restoreBackup" -> restoreBackup(F, P, nBusy, a.backupFolders, a.backupPrompts, a.flag)
    [] OTHER -> handleDeleteFolder(F, P, nBusy, a.id,
                                   IF a.flag THEN "true" ELSE "false", a.confirm)

ReissuedOps ==
  {"createPrompt", "updatePrompt", "deletePrompt", "movePrompt",
   "createFolder", "updateFolder", "deleteFolder", "restoreBackup"}

\* The caller has a success outcome and sends the identical request again.
Reissue ==
  /\ ~hung
  /\ last.op \in ReissuedOps
  /\ ~Failed(last.err)
  /\ last.args.issue = 1
  /\ \E out \in {Request(last.op, folders, prompts, nBusy, last.args) :
                   nBusy \in BusyRuns} :
       Call(last.op, [last.args EXCEPT !.issue = 2], out)

NextReissue ==
  \/ Next
  \/ Reissue

\* the id space holds every folder of a snapshot next to two prompts, so
\* that a restore and its repetition both have ids to draw
InitReissue ==
  /\ folders = EmptyTable
  /\ prompts = EmptyTable
  /\ pre = [folders |-> EmptyTable, prompts |-> EmptyTable]
  /\ last = NoCall
  /\ hung = FALSE
  /\ onDelete \in OnDeleteActions
  /\ anomaly = "none"
  /\ cap = [folders |-> MaxSnapFolders, prompts |-> MorePrompts]
  /\ isOpen = TRUE
  /\ env = MatchingStore
  /\ race = NoRace
  /\ queue = NoQueue

SpecReissue == InitReissue /\ [][NextReissue]_vars

\* initializeDatabaseAccessor(), at start-up: constructs the accessor and
\* calls connect() on it.
InitializeDatabaseAccessor ==
  /\ ~hung
  /\ last.op = "none"
  /\ ~isOpen
  /\ LET c == connect(isOpen, env)
     IN /\ isOpen' = c.isOpen
        /\ last' = [NoCall EXCEPT !.op = "initializeDatabaseAccessor", !.err = c.err]
  /\ pre' = [folders |-> folders, prompts |-> prompts]
  /\ UNCHANGED <<folders, prompts, hung, onDelete, anomaly, cap, env, race, queue>>

\* A well-formed request reaches a handler while the accessor is not open
\* and connect() fails again: the accessor method throws from
\* ensureConnected(), before its own first line. (When connect() would
\* succeed the call is InitializeDatabaseAccessor followed by the method.)
CallNotOpen ==
  /\ ~hung
  /\ last.op = "none"
  /\ ~isOpen
  /\ LET c == connect(isOpen, env)
     IN /\ Failed(c.err)
        /\ isOpen' = c.isOpen
        /\ \E tool \in Tools :
             last' = [NoCall EXCEPT !.op = tool, !.err = c.err,
                                    !.args = [NoArgs EXCEPT !.confirm = "true"],
                                    !.response = HandlerOutcome(tool, NoArgs, c.err)]
  /\ pre' = [folders |-> folders, prompts |-> prompts]
  /\ UNCHANGED <<folders, prompts, hung, onDelete, anomaly, cap, env, race, queue>>

InitConnect ==
  /\ folders = EmptyTable
  /\ prompts = EmptyTable
  /\ pre = [folders |-> EmptyTable, prompts |-> EmptyTable]
  /\ last = NoCall
  /\ hung = FALSE
  /\ onDelete \in OnDeleteActions
  /\ anomaly = "none"
  /\ cap = [folders |-> FewFolders, prompts |-> MorePrompts]
  /\ isOpen = FALSE
  /\ env \in Environments
  /\ race = NoRace
  /\ queue = NoQueue

NextConnect ==
  \/ Next
  \/ InitializeDatabaseAccessor
  \/ CallNotOpen

SpecConnect == InitConnect /\ [][NextConnect]_vars

\* Between two calls the store starts or stops misbehaving.
Fault ==
  /\ Idle
  /\ anomaly' \in Anomalies \ {anomaly}
  /\ UNCHANGED <<folders, prompts, pre, last, hung, onDelete, cap, isOpen, env, race, queue>>

NextAnomaly ==
  \/ Next
  \/ Fault

SpecAnomaly == InitSmall /\ [][NextAnomaly]_vars

\* ------------------------------------- two processes and the host, stepwise
\* the host writes at most this often while the processes run
MaxHostWrites == 1
\* the folder ids of the stepwise exploration
RaceFolders == 3

RacedOps == {"updatePrompt", "createFolder"}

RaceArgs(op) ==
  IF op = "updatePrompt"
    THEN {[NoArgs EXCEPT !.id = id, !.name = title, !.ref = folderId] :
            id \in PromptIds, title \in Titles \cup {AbsentName},
            folderId \in FolderIds \cup {NULL, AbsentRef}}
  ELSE IF op = "movePrompt"
    THEN {[NoArgs EXCEPT !.id = id, !.ref = folderId] :
            id \in PromptIds, folderId \in FolderIds \cup {NULL}}
  ELSE IF op = "updateFolder"
    THEN {[NoArgs EXCEPT !.id = id, !.name = name, !.ref = parentId] :
            id \in FolderIds, name \in {AbsentName, MarkedName},
            parentId \in FolderIds \cup {NULL, AbsentRef}}
  ELSE {[NoArgs EXCEPT !.name = name, !.ref = parentId] :
          name \in Names, parentId \in FolderIds \cup {NULL}}

\* The part of a method before executeWithRetry: the error one of its
\* precondition checks throws, read from the committed tables.
Precheck(op, a, F, P) ==
  LET r == Request(op, F, P, 0, a)
  IN IF r.attempts = 0 THEN r.err ELSE NoErr

UniqueErr == Err("SQLITE_CONSTRAINT", <<"UNIQUE constraint failed">>)

\* the index refuses a second (name, parent_id)
UniqueViolated(F, name, parent) ==
  /\ race.unique # "none"
  /\ race.unique = "non-null parents" => parent # NULL
  /\ \E f \in DOMAIN F : F[f].name = name /\ F[f].parent_id = parent

\* (mutant) writers never wait for each other
ContendedNever(w) == FALSE

\* journal_mode = WAL: one connection writes at a time; the statement of
\* another that needs the write lock fails with SQLITE_BUSY
Contended(w) == race.lock \notin {0, w}

\* One run of the callback a method hands to executeWithRetry, on the tables
\* as committed when it begins.
AttemptOf(op, a, F, P, busy) ==
  IF op = "updatePrompt" THEN updatePromptTxn(F, P, busy, a.id, a.name, a.ref)
  ELSE IF op = "movePrompt" THEN movePromptTxn(F, P, busy, a.id, a.ref)
  ELSE IF op = "updateFolder"
    THEN IF ~busy /\ a.id \in DOMAIN F /\ (a.name # AbsentName \/ a.ref # AbsentRef)
            /\ UniqueViolated(Restrict(F, DOMAIN F \ {a.id}),
                              IF a.name = AbsentName THEN F[a.id].name ELSE a.name,
                              IF a.ref = AbsentRef THEN F[a.id].parent_id ELSE a.ref)
           THEN Transaction(F, P, Throw(WriteLock(Begin(F, P), busy), UniqueErr))
         ELSE updateFolderTxn(F, P, busy, a.id, a.name, a.ref)
  ELSE IF ~busy /\ UniqueViolated(F, a.name, a.ref)
    THEN Transaction(F, P, Throw(WriteLock(uuidv4(Begin(F, P), FolderIds), busy), UniqueErr))
  ELSE createFolderTxn(F, P, busy, a.name, a.ref)

raceFrame == <<pre, last, hung, onDelete, anomaly, cap, isOpen, env, queue>>

\* A process is asked for an update or a new folder and runs the method's
\* precondition checks.
Check(w) ==
  /\ race.w[w].pc = "idle"
  /\ \E op \in RacedOps :
       \E a \in RaceArgs(op) :
         \E e \in {Precheck(op, a, folders, prompts)} :
           race' = [race EXCEPT !.w[w] =
                      [IdleWriter EXCEPT !.pc = IF Failed(e) THEN "done" ELSE "checked",
                                         !.op = op, !.args = a, !.err = e]]
  /\ UNCHANGED <<folders, prompts>>
  /\ UNCHANGED raceFrame

\* One turn of the loop of executeWithRetry: the callback runs up to its
\* COMMIT, or throws and is rolled back; a busy store is tried again after
\* the backoff unless this was the last attempt.
Attempt(w) ==
  /\ race.w[w].pc = "checked"
  /\ \E r \in {AttemptOf(race.w[w].op, race.w[w].args, folders, prompts, Contended(w))} :
       /\ ~r.full
       /\ race' =
            IF ~Failed(r.err) /\ r.wrote
              THEN [race EXCEPT !.lock = w, !.w[w].pc = "written",
                                !.w[w].view = [folders |-> r.folders, prompts |-> r.prompts]]
            ELSE IF ~Failed(r.err)
              THEN [race EXCEPT !.w[w].pc = "done"]
            ELSE IF MessageIncludesBusy(r.err) /\ race.w[w].attempt < maxRetries - 1
              THEN [race EXCEPT !.w[w].attempt = @ + 1]
            ELSE [race EXCEPT !.w[w].pc = "done", !.w[w].err = r.err]
  /\ UNCHANGED <<folders, prompts>>
  /\ UNCHANGED raceFrame

\* COMMIT: what the transaction wrote becomes the store's content and the
\* write lock is free again.
Commit(w) ==
  /\ race.w[w].pc = "written"
  /\ folders' = race.w[w].view.folders
  /\ prompts' = race.w[w].view.prompts
  /\ race' = [race EXCEPT !.lock = IF @ = w THEN 0 ELSE @,
                          !.w[w].pc = "done",
                          !.commits = Append(@, [by |-> w,
                                                 before |-> [folders |-> folders, prompts |-> prompts],
                                                 after |-> race.w[w].view])]
  /\ UNCHANGED raceFrame

HostCommit(F, P) ==
  /\ folders' = F
  /\ prompts' = P
  /\ race' = [race EXCEPT !.hostWrites = @ + 1,
                          !.commits = Append(@, [by |-> 0,
                                                 before |-> [folders |-> folders, prompts |-> prompts],
                                                 after |-> [folders |-> F, prompts |-> P]])]
  /\ UNCHANGED raceFrame

\* The host application deletes a folder, as its schema lets it.
HostDeletesFolder ==
  /\ race.lock = 0
  /\ race.hostWrites < MaxHostWrites
  /\ \E id \in DOMAIN folders :
       LET r == Transaction(folders, prompts,
                            DeleteFolderRow(Begin(folders, prompts), FALSE, id))
       IN ~Failed(r.err) /\ HostCommit(r.folders, r.prompts)

\* The host application creates a folder.
HostCreatesFolder ==
  /\ race.lock = 0
  /\ race.hostWrites < MaxHostWrites
  /\ \E name \in Names, parentId \in DOMAIN folders \cup {NULL} :
       LET s0 == uuidv4(Begin(folders, prompts), FolderIds)
           r == Transaction(folders, prompts, InsertFolder(s0, FALSE, s0.id, name, parentId))
       IN /\ ~UniqueViolated(folders, name, parentId)
          /\ ~Failed(r.err)
          /\ HostCommit(r.folders, r.prompts)

\* One folder and one prompt are in the store when the processes start.
InitConcurrent ==
  /\ folders = (1 :> [name |-> "Security", parent_id |-> NULL])
  /\ \E folderId \in {NULL, 1} :
       prompts = (101 :> [title |-> "Checklist", folder_id |-> folderId])
  /\ pre = [folders |-> folders, prompts |-> prompts]
  /\ last = NoCall
  /\ hung = FALSE
  /\ onDelete \in OnDeleteActions
  /\ anomaly = "none"
  /\ cap = [folders |-> RaceFolders, prompts |-> MaxPrompts]
  /\ isOpen = TRUE
  /\ env = MatchingStore
  /\ \E u \in UniqueIndexes : race = [NoRace EXCEPT !.unique = u]
  /\ queue = NoQueue

NextConcurrent ==
  \/ \E w \in Writers : Check(w)
  \/ \E w \in Writers : Attempt(w)
  \/ \E w \in Writers : Commit(w)
  \/ HostDeletesFolder
  \/ HostCreatesFolder

SpecConcurrent == InitConcurrent /\ [][NextConcurrent]_vars

\* ------------------------------------ a store whose hierarchy the host bent
\* the folders in the store when the accessor is called
BentFolders == 2

\* The host application has left each folder under any folder, itself
\* included, or under none: the store's foreign key asks no more of
\* parent_id than that the row exists.
InitBent ==
  /\ \E parents \in [1..BentFolders -> (1..BentFolders) \cup {NULL}] :
       folders = [f \in 1..BentFolders |->
                    [name |-> IF f = 1 THEN "Security" ELSE MarkedName,
                     parent_id |-> parents[f]]]
  /\ \E folderId \in {NULL, 1} :
       prompts = (101 :> [title |-> "Checklist", folder_id |-> folderId])
  /\ pre = [folders |-> folders, prompts |-> prompts]
  /\ last = NoCall
  /\ hung = FALSE
  /\ onDelete \in OnDeleteActions
  /\ anomaly = "none"
  /\ cap = [folders |-> MaxFolders, prompts |-> MaxPrompts]
  /\ isOpen = TRUE
  /\ env = MatchingStore
  /\ race = NoRace
  /\ queue = NoQueue

NextBent ==
  \/ UpdateFolder
  \/ DeleteFolder
  \/ Return

SpecBent == InitBent /\ [][NextBent]_vars

\* ------------------------------- one process and the host, in the window
\* the folder ids of the exploration of a process beside the host
HostRaceFolders == 2

HostRacedOps == {"updatePrompt", "movePrompt", "updateFolder"}

\* a process has run its precondition checks and not yet its transaction
InWindow == \E w \in Writers : race.w[w].pc = "checked"

\* A process is asked for an update, a move or a reparent and runs the
\* method's precondition checks.
CheckBesideHost(w) ==
  /\ race.w[w].pc = "idle"
  /\ \E op \in HostRacedOps :
       \E a \in RaceArgs(op) :
         \E e \in {Precheck(op, a, folders, prompts)} :
           race' = [race EXCEPT !.w[w] =
                      [IdleWriter EXCEPT !.pc = IF Failed(e) THEN "done" ELSE "checked",
                                         !.op = op, !.args = a, !.err = e]]
  /\ UNCHANGED <<folders, prompts>>
  /\ UNCHANGED raceFrame

\* The host application moves a folder under another parent; by itself it
\* keeps its hierarchy a forest.
HostReparentsFolder ==
  /\ race.lock = 0
  /\ race.hostWrites < MaxHostWrites
  /\ \E id \in DOMAIN folders, parentId \in DOMAIN folders \cup {NULL} :
       LET r == Transaction(folders, prompts,
                            UpdateFolderRow(Begin(folders, prompts), FALSE, id,
                                            AbsentName, parentId))
       IN /\ parentId # folders[id].parent_id
          /\ ~wouldCreateCycle(folders, id, parentId)
          /\ ~UniqueViolated(Restrict(folders, DOMAIN folders \ {id}),
                             folders[id].name, parentId)
          /\ ~Failed(r.err)
          /\ HostCommit(r.folders, r.prompts)

\* The host application deletes a prompt.
HostDeletesPrompt ==
  /\ race.lock = 0
  /\ race.hostWrites < MaxHostWrites
  /\ \E id \in DOMAIN prompts :
       LET r == Transaction(folders, prompts,
                            DeletePromptRow(Begin(folders, prompts), FALSE, id))
       IN ~Failed(r.err) /\ HostCommit(r.folders, r.prompts)

\* Two folders, the second a root or the child of the first, and one prompt
\* are in the store when the process starts.
InitHostRace ==
  /\ \E parentId \in {NULL, 1} :
       folders = (1 :> [name |-> "Security", parent_id |-> NULL])
                 @@ (2 :> [name |-> MarkedName, parent_id |-> parentId])
  /\ \E folderId \in {NULL, 1, 2} :
       prompts = (101 :> [title |-> "Checklist", folder_id |-> folderId])
  /\ pre = [folders |-> folders, prompts |-> prompts]
  /\ last = NoCall
  /\ hung = FALSE
  /\ onDelete \in OnDeleteActions
  /\ anomaly = "none"
  /\ cap = [folders |-> HostRaceFolders, prompts |-> MaxPrompts]
  /\ isOpen = TRUE
  /\ env = MatchingStore
  /\ \E u \in UniqueIndexes : race = [NoRace EXCEPT !.unique = u]
  /\ queue = NoQueue

\* the host writes in the window between a process's checks and its
\* transaction
NextHostRace ==
  \/ CheckBesideHost(1)
  \/ Attempt(1)
  \/ Commit(1)
  \/ InWindow /\ HostReparentsFolder
  \/ InWindow /\ HostDeletesPrompt
  \/ InWindow /\ HostDeletesFolder

SpecHostRace == InitHostRace /\ [][NextHostRace]_vars

\* --------------------------------------------- write() of the queue writer
\* write() is called at most this often
MaxWrites == 2

\* the operation files of others the directory may hold
DepthsTried == {0, QueueDepthLimit - 1, QueueDepthLimit, QueueDepthLimit + 1}

\* readdirSync filtered to the names that neither start with "." nor lack
\* ".json": the operation files, those of this writer among them
operationFiles(q) == q.others + Cardinality(q.mine)

\* checkQueueDepth(): the error it throws
checkQueueDepth(q) ==
  IF ~q.access THEN Err("PERMISSION_DENIED", <<"Cannot access queue directory">>)
  ELSE IF operationFiles(q) > QueueDepthLimit
    THEN Err("QUEUE_FULL", <<"Queue has too many pending operations (",
                             ToString(operationFiles(q)), ")">>)
  ELSE NoErr

\* the try block of write() before the file is written: the error thrown
BeforeWriting(q) ==
  IF Failed(checkQueueDepth(q)) THEN checkQueueDepth(q)
  ELSE IF q.payload = "large"
    THEN Err("PAYLOAD_TOO_LARGE", <<"Operation exceeds 1MB limit">>)
  ELSE NoErr

\* (mutant) an id of its own for every attempt
AttemptIdFresh(q) == q.operationId + 100 * q.attempt

\* the operation id an attempt puts into the file and its name: the one
\* write() drew before its loop
AttemptId(q) == q.operationId

\* (mutant) the loop gives up one attempt earlier
LastAttemptEarly(attempt) == attempt = queueMaxRetries - 1

\* attempt === this.maxRetries
LastAttempt(attempt) == attempt = queueMaxRetries

\* the catch block of write(): on the last attempt the error is thrown on,
\* wrapped when it is not a PromptekaMCPError; before it, write() sleeps and
\* goes round again
Caught(q, e) ==
  IF LastAttempt(q.attempt)
    THEN [q EXCEPT !.pc = "done", !.thrown = Append(@, e.code),
                   !.err = IF IsPromptekaMCPError(e) THEN e
                           ELSE Err("INTERNAL_ERROR", <<"Failed to write operation: ">> \o e.msg)]
  ELSE [q EXCEPT !.pc = "attempt", !.thrown = Append(@, e.code),
                 !.attempt = @ + 1, !.sleeps = Append(@, queueRetryBackoffMs)]

queueFrame == <<folders, prompts, pre, last, hung, onDelete, anomaly, cap, isOpen, env, race>>

\* write(operation, data) is called: the operation id is drawn
QueueWrite ==
  /\ queue.pc \in {"idle", "done"}
  /\ queue.calls < MaxWrites
  /\ \E payload \in {"small", "large"} :
       queue' = [queue EXCEPT !.pc = "attempt", !.operationId = FirstOperationId + queue.calls,
                              !.calls = @ + 1, !.attempt = 0, !.elapsed = 0,
                              !.payload = payload, !.depthAtCall = operationFiles(queue),
                              !.written = <<>>, !.waits = <<>>, !.sleeps = <<>>,
                              !.thrown = <<>>, !.err = NoErr]
  /\ UNCHANGED queueFrame

\* one turn of the loop up to waitForResponse: the checks, then the file
\* is written under a temporary name and renamed
QueueTry ==
  /\ queue.pc = "attempt"
  /\ queue' = IF Failed(BeforeWriting(queue)) THEN Caught(queue, BeforeWriting(queue))
              ELSE [queue EXCEPT !.pc = "waiting", !.elapsed = 0,
                                 !.mine = @ \cup {AttemptId(queue)},
                                 !.written = Append(@, AttemptId(queue))]
  /\ UNCHANGED queueFrame

\* one turn of the loop of waitForResponse: the response file is there, is
\* read and removed, or the writer sleeps until the next poll
QueuePoll ==
  /\ queue.pc = "waiting"
  /\ queue.elapsed < timeoutMs
  /\ queue' = IF AttemptId(queue) \in queue.responses
                THEN [queue EXCEPT !.pc = "done", !.responses = @ \ {AttemptId(queue)},
                                   !.waits = Append(@, queue.elapsed)]
              ELSE [queue EXCEPT !.elapsed = @ + pollMs]
  /\ UNCHANGED queueFrame

\* the loop of waitForResponse ends: RESPONSE_TIMEOUT is thrown into the
\* catch block of write()
QueueTimeout ==
  /\ queue.pc = "waiting"
  /\ queue.elapsed >= timeoutMs
  /\ queue' = Caught([queue EXCEPT !.waits = Append(@, queue.elapsed)],
                     Err("RESPONSE_TIMEOUT",
                         <<"No response within ", ToString(timeoutMs), "ms">>))
  /\ UNCHANGED queueFrame

\* The host takes one of the writer's operation files, applies the
\* operation unless it has applied that operation id before, and leaves the
\* response file.
HostProcesses ==
  /\ \E id \in queue.mine :
       queue' = [queue EXCEPT !.mine = @ \ {id}, !.responses = @ \cup {id},
                              !.applied = IF \E i \in 1..Len(@) : @[i] = id THEN @
                                          ELSE Append(@, id)]
  /\ UNCHANGED queueFrame

\* The operation files of others come and go.
QueueDrifts ==
  /\ \E n \in DepthsTried \ {queue.others} : queue' = [queue EXCEPT !.others = n]
  /\ UNCHANGED queueFrame

\* The directory becomes unreadable, or readable again.
AccessChanges ==
  /\ queue' = [queue EXCEPT !.access = ~@]
  /\ UNCHANGED queueFrame

InitQueue ==
  /\ folders = EmptyTable
  /\ prompts = EmptyTable
  /\ pre = [folders |-> EmptyTable, prompts |-> EmptyTable]
  /\ last = NoCall
  /\ hung = FALSE
  /\ onDelete = "CASCADE"
  /\ anomaly = "none"
  /\ cap = [folders |-> FewFolders, prompts |-> MorePrompts]
  /\ isOpen = FALSE
  /\ env = MatchingStore
  /\ race = NoRace
  /\ \E n \in DepthsTried, a \in BOOLEAN :
       queue = [NoQueue EXCEPT !.others = n, !.access = a]

NextQueue ==
  \/ QueueWrite
  \/ QueueTry
  \/ QueuePoll
  \/ QueueTimeout
  \/ HostProcesses
  \/ QueueDrifts
  \/ AccessChanges

SpecQueue == InitQueue /\ [][NextQueue]_vars

\* ================================================================== claims
Succeeded == last.op # "none" /\ ~hung /\ ~Failed(last.err)
Unchanged == folders = pre.folders /\ prompts = pre.prompts

\* the folders reached from f by following parent_id one or more times
RECURSIVE AncestorsFrom(_, _, _)
AncestorsFrom(F, frontier, seen) ==
  LET next == {F[f].parent_id : f \in frontier \cap DOMAIN F} \ ({NULL} \cup seen)
  IN IF next = {} THEN seen ELSE AncestorsFrom(F, next, seen \cup next)

Ancestors(F, f) == AncestorsFrom(F, {f}, {})

\* the proper descendants of f in F
Descendants(F, f) == {g \in DOMAIN F : f \in Ancestors(F, g)}

\* C1: after any sequence of engine operations, no folder is its own
\* ancestor: the parent chain of every folder ends at "no parent".
C1_NoFolderIsItsOwnAncestor ==
  \A f \in DOMAIN folders : f \notin Ancestors(folders, f)

\* a reparent has acted: updateFolder moved a folder under another folder
\* that already had a parent of its own
C1_Witness ==
  /\ Succeeded
  /\ last.op = "updateFolder"
  /\ last.args.ref \in DOMAIN folders
  /\ pre.folders[last.args.id].parent_id # last.args.ref
  /\ folders[last.args.id].parent_id = last.args.ref
  /\ folders[last.args.ref].parent_id # NULL

\* C2: updateFolder(F, parentId = P) with P = F or P a descendant of F is
\* rejected as a circular hierarchy and changes nothing.
C2_CycleRejected ==
  (/\ last.op = "updateFolder"
   /\ last.args.id \in DOMAIN pre.folders
   /\ last.args.ref \in {last.args.id} \cup Descendants(pre.folders, last.args.id))
  => (last.err = CycleErr /\ last.attempts = 0 /\ Unchanged)

\* the spec's scenario: B lies below A and A is asked to move under B
C2_Witness ==
  /\ last.op = "updateFolder"
  /\ last.args.id \in DOMAIN pre.folders
  /\ last.args.ref \in Descendants(pre.folders, last.args.id)
  /\ last.err = CycleErr

\* C3: no two folders with the same parent (or both without parent) have
\* the same name.
C3_SiblingNamesDistinct ==
  \A f, g \in DOMAIN folders :
    (f # g /\ folders[f].parent_id = folders[g].parent_id)
    => folders[f].name # folders[g].name

\* a rename or reparent has acted on a folder that has a sibling
C3_Witness ==
  /\ Succeeded
  /\ last.op = "updateFolder"
  /\ folders[last.args.id] # pre.folders[last.args.id]
  /\ \E g \in DOMAIN folders :
       g # last.args.id /\ folders[g].parent_id = folders[last.args.id].parent_id

\* C4: every prompt whose folder_id is set references a folder of the store.
C4_PromptFolderExists ==
  \A p \in DOMAIN prompts :
    prompts[p].folder_id # NULL => prompts[p].folder_id \in DOMAIN folders

\* restoreBackup has removed a folder, and a prompt that references a
\* folder is in the store afterwards
C4_Witness ==
  /\ Succeeded
  /\ last.op = "restoreBackup"
  /\ DOMAIN pre.folders \ DOMAIN folders # {}
  /\ \E p \in DOMAIN prompts : prompts[p].folder_id # NULL

\* C5: every folder whose parent_id is set references a folder of the store,
\* also after restoreBackup with overwrite=true over a folder with subfolders.
C5_FolderParentExists ==
  \A f \in DOMAIN folders :
    folders[f].parent_id # NULL => folders[f].parent_id \in DOMAIN folders

\* restoreBackup(overwrite=true) has replaced a live folder that had a subfolder
C5_Witness ==
  /\ Succeeded
  /\ last.op = "restoreBackup"
  /\ last.args.flag
  /\ \E f \in DOMAIN pre.folders \ DOMAIN folders :
       \E g \in DOMAIN pre.folders : pre.folders[g].parent_id = f

\* the folders of the subtree of f in F: f and its proper descendants
SubtreeOf(F, f) == {f} \cup Descendants(F, f)

\* C6: deleteFolder(id, recursive=false) on a folder with a direct prompt or
\* a direct subfolder fails with FOLDER_NOT_EMPTY and leaves every folder and
\* every prompt as it was.
C6_NonEmptyNotDeleted ==
  (/\ last.op = "deleteFolder"
   /\ ~last.args.flag
   /\ last.args.id \in DOMAIN pre.folders
   /\ \/ \E p \in DOMAIN pre.prompts : pre.prompts[p].folder_id = last.args.id
      \/ \E f \in DOMAIN pre.folders : pre.folders[f].parent_id = last.args.id)
  => (last.err.code = "FOLDER_NOT_EMPTY" /\ Unchanged)

\* a non-recursive delete was refused on a folder that holds only a subfolder
C6_Witness ==
  /\ last.op = "deleteFolder"
  /\ ~last.args.flag
  /\ last.err.code = "FOLDER_NOT_EMPTY"
  /\ \E f \in DOMAIN pre.folders : pre.folders[f].parent_id = last.args.id
  /\ \A p \in DOMAIN pre.prompts : pre.prompts[p].folder_id # last.args.id

\* C7: deleteFolder(id, recursive=true) removes the folder, all its
\* transitive descendants and every prompt in any of them, and leaves every
\* other folder and prompt as it was; the only way it does not is lock
\* contention through all attempts, which changes nothing.
C7_RecursiveDeleteExact ==
  (/\ last.op = "deleteFolder"
   /\ last.args.flag
   /\ last.args.id \in DOMAIN pre.folders)
  => LET gone == SubtreeOf(pre.folders, last.args.id)
     IN \/ /\ ~Failed(last.err)
           /\ folders = Restrict(pre.folders, DOMAIN pre.folders \ gone)
           /\ prompts = Restrict(pre.prompts,
                                 {p \in DOMAIN pre.prompts : pre.prompts[p].folder_id \notin gone})
        \/ /\ last.err = BusyErr
           /\ last.attempts = 3
           /\ Unchanged

\* a recursive delete removed a folder, a subfolder of it and a prompt in the
\* subfolder, and a folder outside the subtree is still there
C7_Witness ==
  /\ Succeeded
  /\ last.op = "deleteFolder"
  /\ last.args.flag
  /\ \E g \in Descendants(pre.folders, last.args.id) :
       \E p \in DOMAIN pre.prompts \ DOMAIN prompts : pre.prompts[p].folder_id = g
  /\ folders # EmptyTable

\* C8: a recursive folder delete or a restore that fails leaves the store as
\* it was before the call.
C8_CompoundFailureRollsBack ==
  (/\ \/ last.op = "deleteFolder" /\ last.args.flag
      \/ last.op = "restoreBackup"
   /\ Failed(last.err))
  => Unchanged

\* a restore failed after statements of it had already written
C8_Witness ==
  /\ last.op = "restoreBackup"
  /\ ~hung
  /\ Failed(last.err)
  /\ \E i \in 1..Len(last.log) : last.log[i][1] \in {"insert folder", "delete folder"}

C10_OtherFailuresNotRetried ==
  \A i \in 1..Len(last.tried) :
    (Failed(last.tried[i]) /\ last.tried[i].code # "SQLITE_BUSY")
    => i = Len(last.tried)

\* C11: when lock contention lasts through every allowed attempt, the
\* outcome the tool returns carries an error code that the catalogue marks
\* retryable.
C11_ExhaustedContentionRetryable ==
  (/\ last.response.status = "error"
   /\ last.attempts = 3
   /\ last.err = BusyErr)
  => isRetryable(last.response.error)

\* C12: a mutating operation whose read-back does not show the expected
\* state never returns success: after a success the created row is there,
\* the updated row is there, the deleted row is gone and the moved prompt is
\* in the folder that was asked for.
C12_SuccessMeansReadBackMatched ==
  Succeeded =>
    /\ last.op = "createPrompt" => last.newId \in DOMAIN prompts
    /\ last.op = "createFolder" => last.newId \in DOMAIN folders
    /\ last.op = "updatePrompt" => last.args.id \in DOMAIN prompts
    /\ last.op = "updateFolder" => last.args.id \in DOMAIN folders
    /\ last.op = "deletePrompt" => last.args.id \notin DOMAIN prompts
    /\ last.op = "deleteFolder" => last.args.id \notin DOMAIN folders
    /\ last.op = "movePrompt" =>
         /\ last.args.id \in DOMAIN prompts
         /\ prompts[last.args.id].folder_id = last.args.ref

\* C13: the read-back that gates the success outcome runs after the
\* transaction has committed: every read-back of a call is preceded by the
\* commit of its transaction.
C13_ReadBackAfterCommit ==
  \A i \in 1..Len(last.log) :
    last.log[i][1] = "read back"
    => \E j \in 1..(i - 1) : last.log[j][1] = "commit"

\* the last call named a target entity or a folder that is not in the store
MissingPrompt ==
  /\ last.op \in {"updatePrompt", "deletePrompt", "movePrompt"}
  /\ last.args.id \notin DOMAIN pre.prompts
MissingFolder ==
  /\ last.op \in {"updateFolder", "deleteFolder"}
  /\ last.args.id \notin DOMAIN pre.folders
MissingReference ==
  /\ last.op \in {"createPrompt", "createFolder", "updatePrompt", "movePrompt", "updateFolder"}
  /\ last.args.ref \notin {NULL, AbsentRef}
  /\ last.args.ref \notin DOMAIN pre.folders

FixedMessages ==
  {<<ErrorCatalog[c].userFacingMessage>> : c \in ErrorCodes}
    \cup {<<FailText(t)>> : t \in Tools}

\* C15: every call of a write-tool handler that returns, returns an outcome:
\* success exactly when nothing was thrown, otherwise an error outcome whose
\* code is a catalogue code and whose message is one of the fixed messages,
\* never the text of the error that was thrown.
C15_OutcomeFromCatalogue ==
  (ToolOf(last.op) \in Tools /\ ~hung) =>
    /\ last.response.status \in {"success", "error"}
    /\ last.response.status = "success" <=> ~Failed(last.err)
    /\ last.response.status = "error" =>
         /\ last.response.error \in ErrorCodes
         /\ last.response.message \in FixedMessages
         /\ last.response.message # last.err.msg

\* a store error reached a handler: the store's "database is locked" was
\* returned as INTERNAL_ERROR with the handler's own text
C15_Witness ==
  /\ ToolOf(last.op) \in Tools
  /\ last.err = BusyErr
  /\ last.response.message = <<FailText(ToolOf(last.op))>>
  /\ last.response.status = "error"
  /\ last.response.error = "INTERNAL_ERROR"

\* C16: a call of delete_prompt or delete_folder whose confirmDelete is not
\* the boolean true (absent, null, false, or no boolean at all) returns an
\* error outcome, never enters the accessor, and leaves both tables as they
\* were.
C16_NoDeleteWithoutConfirm ==
  (ToolOf(last.op) \in {"delete_prompt", "delete_folder"} /\ ~hung
     /\ last.args.confirm # "true") =>
    /\ last.response.status = "error"
    /\ last.attempts = 0
    /\ last.log = <<>>
    /\ Unchanged

\* delete_prompt on a prompt that exists, with confirmDelete null: refused
\* with INVALID_INPUT and the prompt is still there
C16_Witness ==
  /\ last.op = "delete_prompt"
  /\ last.args.malformed = "no"
  /\ last.args.confirm = "null"
  /\ last.args.id \in DOMAIN pre.prompts
  /\ last.args.id \in DOMAIN prompts
  /\ last.response.status = "error"
  /\ last.response.error = "INVALID_INPUT"

C18_ReissueChangesNothing ==
  (last.args.issue = 2 /\ ~hung) => Unchanged

\* what does hold: the same, for every request to a handler but createPrompt
C18_ReissueButCreatePrompt ==
  (last.args.issue = 2 /\ ~hung /\ last.op \notin {"createPrompt", "restoreBackup"})
    => Unchanged

\* the row `new` is the row `old` with the fields present in the request
\* replaced: name/title by a.name, the folder reference by a.ref
PatchedPrompt(old, new, a) ==
  /\ new.title = (IF a.name # AbsentName THEN a.name ELSE old.title)
  /\ new.folder_id = (IF a.ref # AbsentRef THEN a.ref ELSE old.folder_id)

PatchedFolder(old, new, a) ==
  /\ new.name = (IF a.name # AbsentName THEN a.name ELSE old.name)
  /\ new.parent_id = (IF a.ref # AbsentRef THEN a.ref ELSE old.parent_id)

EmptyChangeSet == last.args.name = AbsentName /\ last.args.ref = AbsentRef

\* C19: a successful updatePrompt (updateFolder) leaves the folders (prompts)
\* table and every other prompt (folder) as they were, and changes in the
\* target exactly the fields present in the request; with no field present
\* the call on an existing target succeeds, runs no statement and changes
\* nothing.
C19_UpdateChangesPresentFieldsOnly ==
  /\ (Succeeded /\ last.op = "updatePrompt") =>
       /\ folders = pre.folders
       /\ DOMAIN prompts = DOMAIN pre.prompts
       /\ \A p \in DOMAIN prompts \ {last.args.id} : prompts[p] = pre.prompts[p]
       /\ PatchedPrompt(pre.prompts[last.args.id], prompts[last.args.id], last.args)
  /\ (Succeeded /\ last.op = "updateFolder") =>
       /\ prompts = pre.prompts
       /\ DOMAIN folders = DOMAIN pre.folders
       /\ \A f \in DOMAIN folders \ {last.args.id} : folders[f] = pre.folders[f]
       /\ PatchedFolder(pre.folders[last.args.id], folders[last.args.id], last.args)
  /\ (~hung /\ EmptyChangeSet /\
        \/ last.op = "updatePrompt" /\ last.args.id \in DOMAIN pre.prompts
        \/ last.op = "updateFolder" /\ last.args.id \in DOMAIN pre.folders) =>
       /\ Succeeded
       /\ Unchanged
       /\ \A i \in 1..Len(last.log) : last.log[i][1] = "commit"

\* an update of the title alone, of a prompt that is in a folder: the title
\* changed and the prompt is still in its folder
C19_Witness ==
  /\ Succeeded
  /\ last.op = "updatePrompt"
  /\ last.args.name # AbsentName
  /\ last.args.ref = AbsentRef
  /\ pre.prompts[last.args.id].folder_id # NULL
  /\ prompts[last.args.id].title # pre.prompts[last.args.id].title
  /\ prompts[last.args.id].folder_id = pre.prompts[last.args.id].folder_id

\* C20: after a successful movePrompt(p, X), getPrompt(p) finds the prompt
\* and reports folderId = X; when X is no folder (null) it reports a null
\* folderId.
C20_MoveThenReadReportsTarget ==
  (Succeeded /\ last.op = "movePrompt") =>
    /\ last.args.id \in DOMAIN prompts
    /\ getPrompt(prompts, last.args.id).folderId = last.args.ref

\* a prompt that was in a folder has been moved to no folder
C20_Witness ==
  /\ Succeeded
  /\ last.op = "movePrompt"
  /\ last.args.ref = NULL
  /\ pre.prompts[last.args.id].folder_id # NULL
  /\ getPrompt(prompts, last.args.id).folderId = NULL

\* C21: the accessor is open only on a store whose schema_version is the
\* expected one, a connect() on such a store (whose file opens) leaves it
\* open, and while it has never been open both tables are as they were at
\* the start.
C21_OpenExactlyOnMatch ==
  /\ isOpen => env.schema_version = PROMPTEKA_SCHEMA_VERSION
  /\ (last.op = "initializeDatabaseAccessor" /\ env.opens
        /\ env.schema_version = PROMPTEKA_SCHEMA_VERSION) => isOpen
  /\ ~isOpen => (folders = EmptyTable /\ prompts = EmptyTable)

\* what does hold: never open on another version, and nothing written while
\* not open
C21_NeverOpenOnMismatch ==
  /\ isOpen => env.schema_version = PROMPTEKA_SCHEMA_VERSION
  /\ ~isOpen => (folders = EmptyTable /\ prompts = EmptyTable /\ last.log = <<>>)

\* connect() failed on the version comparison
SchemaMismatch ==
  /\ ~isOpen
  /\ env.opens
  /\ Failed(last.err)
  /\ last.err = ConnectErr(SchemaMismatchText(pragma(env, FALSE)))

\* what a handler returns for the failures of the other classes: lock
\* contention, a failed read-back, a database file that does not open
OtherFailureOutcomes(tool) ==
  {HandlerOutcome(tool, NoArgs, e) :
     e \in {BusyErr, VerifyErr("prompt was updated"), ConnectErr(<<OpenFailedText>>)}}

\* C22: the outcome a handler returns when connect() failed on the schema
\* version differs, in code or in message, from the outcome it returns for
\* lock contention, for a failed read-back and for a file that does not open.
C22_MismatchDistinguishable ==
  (last.op \in Tools /\ SchemaMismatch) =>
    last.response \notin OtherFailureOutcomes(last.op)

\* the error of Phase 1 for a parent reference the id map does not hold
ParentUnresolved(e) ==
  e.code = "INVALID_INPUT" /\ Len(e.msg) = 5 /\ e.msg[1] = "Folder '"

\* the ids of the snapshot's folders
SnapshotIds(backupFolders) == {backupFolders[i].id : i \in 1..Len(backupFolders)}

\* every parent reference of the snapshot is null or another folder of it
ParentsInSnapshot(backupFolders) ==
  \A i \in 1..Len(backupFolders) :
    backupFolders[i].parent_id \in
      {NULL} \cup (SnapshotIds(backupFolders) \ {backupFolders[i].id})

\* C23: in a restoreBackup that returned, the order in which the folders are
\* processed holds the same folders as the input and every folder after its
\* parent, whatever the input order; and when every parent is in the snapshot
\* no folder is processed before its parent is in the id map (the error for
\* an unmapped parent is not thrown).
C23_ParentsBeforeChildren ==
  (last.op = "restoreBackup" /\ ~hung) =>
    LET given == last.args.backupFolders
        sorted == sortedFolders(given)
    IN /\ Len(sorted) = Len(given)
       /\ SnapshotIds(sorted) = SnapshotIds(given)
       /\ \A i, j \in 1..Len(sorted) :
            (i # j /\ sorted[j].parent_id = sorted[i].id) => i < j
       /\ ParentsInSnapshot(given) => ~ParentUnresolved(last.err)

\* the input lists a child before its parent and both were created, the
\* child under the new parent
C23_Witness ==
  /\ Succeeded
  /\ last.op = "restoreBackup"
  /\ Len(last.args.backupFolders) = 2
  /\ last.args.backupFolders[1].parent_id = last.args.backupFolders[2].id
  /\ last.importedFolders = 2
  /\ \E f \in DOMAIN folders \ DOMAIN pre.folders :
       folders[f].parent_id \in DOMAIN folders \ DOMAIN pre.folders

\* the live folders a snapshot folder without parent matches: the root
\* folders of F that carry its name
RootMatches(F, folder) ==
  IF folder.parent_id # NULL THEN {}
  ELSE {m \in DOMAIN F : F[m].name = folder.name /\ F[m].parent_id = NULL}

\* restoreBackup with overwrite = false has returned without error
MergeDone == Succeeded /\ last.op = "restoreBackup" /\ ~last.args.flag

\* nothing the store held was removed or changed, and no folder was created
\* with the name and parent of a folder the store held
NoDuplicateFolderCreated ==
  /\ \A f \in DOMAIN pre.folders : f \in DOMAIN folders /\ folders[f] = pre.folders[f]
  /\ \A f \in DOMAIN folders \ DOMAIN pre.folders :
       \A g \in DOMAIN pre.folders :
         ~(folders[f].name = pre.folders[g].name
           /\ folders[f].parent_id = pre.folders[g].parent_id)

\* every snapshot folder whose parent is the matched snapshot folder is, by
\* name, a child of the live folder
ChildrenAttached(sf) ==
  \A j \in 1..Len(last.args.backupFolders) :
    LET cf == last.args.backupFolders[j]
    IN cf.parent_id = sf.id =>
         \E m \in RootMatches(pre.folders, sf), g \in DOMAIN folders :
           folders[g].name = cf.name /\ folders[g].parent_id = m

\* the snapshot prompt sp is, by title, a prompt of the live folder
PromptAttached(sf, sp) ==
  \E m \in RootMatches(pre.folders, sf), p \in DOMAIN prompts :
    prompts[p].title = sp.title /\ prompts[p].folder_id = m

TitleIsLive(sp) == \E p \in DOMAIN pre.prompts : pre.prompts[p].title = sp.title

\* the i-th snapshot prompt is the first of the snapshot with its title
FirstOfTitle(i) ==
  \A k \in 1..(i - 1) : last.args.backupPrompts[k].title # last.args.backupPrompts[i].title

FirstMergeDone == MergeDone /\ last.args.issue = 1

\* C25: when a restoreBackup with overwrite = false that succeeded is run
\* again on the same snapshot, the store holds as many folders and as many
\* prompts after the second run as after the first; and the second run never
\* lacks an id to draw, so no second run is missing from the exploration.
C25_SecondMergeKeepsCounts ==
  /\ (last.op = "restoreBackup" /\ ~last.args.flag /\ last.args.issue = 2 /\ ~hung) =>
       /\ Cardinality(DOMAIN folders) = Cardinality(DOMAIN pre.folders)
       /\ Cardinality(DOMAIN prompts) = Cardinality(DOMAIN pre.prompts)
  /\ FirstMergeDone =>
       \A nBusy \in BusyRuns :
         ~Request(last.op, folders, prompts, nBusy, last.args).full

\* the first run created a parent, its child and a prompt; the second run
\* succeeded and imported nothing
C25_Witness ==
  /\ Succeeded
  /\ last.op = "restoreBackup"
  /\ ~last.args.flag
  /\ last.args.issue = 2
  /\ Len(last.args.backupFolders) = 2
  /\ last.args.backupFolders[2].parent_id = last.args.backupFolders[1].id
  /\ Len(last.args.backupPrompts) = 1
  /\ Cardinality(DOMAIN folders) = 2
  /\ Cardinality(DOMAIN prompts) = 1
  /\ last.importedFolders = 0
  /\ last.importedPrompts = 0

\* restoreBackup with overwrite = true has returned without error
OverwriteDone == Succeeded /\ last.op = "restoreBackup" /\ last.args.flag

\* none of the folders that were below m (m included), and none of the
\* prompts that were in them, is in the store
SubtreeGone(m) ==
  LET sub == Subtree(pre.folders, {m})
  IN /\ sub \cap DOMAIN folders = {}
     /\ \A p \in DOMAIN pre.prompts :
          pre.prompts[p].folder_id \in sub => p \notin DOMAIN prompts

\* C26: after a restoreBackup with overwrite = true, for every live folder
\* that a snapshot folder matched, the folder, all folders that were below
\* it and all prompts that were in them are gone (the folders the restore
\* created carry new ids).
C26_OverwriteRemovesSubtree ==
  OverwriteDone =>
    \A i \in 1..Len(last.args.backupFolders) :
      \A m \in RootMatches(pre.folders, last.args.backupFolders[i]) :
        SubtreeGone(m)

\* what does hold: the same on a store whose schema cascades the delete
C26_SubtreeGoneUnderCascade ==
  (OverwriteDone /\ onDelete = "CASCADE") =>
    \A i \in 1..Len(last.args.backupFolders) :
      \A m \in RootMatches(pre.folders, last.args.backupFolders[i]) :
        SubtreeGone(m)

CountTitle(P, title) == Cardinality({p \in DOMAIN P : P[p].title = title})

CountRoots(F, name) ==
  Cardinality({f \in DOMAIN F : F[f].name = name /\ F[f].parent_id = NULL})

\* for every snapshot prompt whose title a live prompt carried: a live
\* prompt of that title is gone and no more prompts carry the title than
\* before
PromptsReplaced ==
  \A k \in 1..Len(last.args.backupPrompts) :
    LET title == last.args.backupPrompts[k].title
    IN CountTitle(pre.prompts, title) >= 1 =>
         /\ \E p \in DOMAIN pre.prompts :
              pre.prompts[p].title = title /\ p \notin DOMAIN prompts
         /\ CountTitle(prompts, title) <= CountTitle(pre.prompts, title)

\* for every snapshot folder without parent whose name a live root folder
\* carried: a live root folder of that name is gone and no more root folders
\* carry the name than before
RootFoldersReplaced ==
  \A i \in 1..Len(last.args.backupFolders) :
    LET sf == last.args.backupFolders[i]
    IN RootMatches(pre.folders, sf) # {} =>
         /\ \E m \in RootMatches(pre.folders, sf) : m \notin DOMAIN folders
         /\ CountRoots(folders, sf.name) <= CountRoots(pre.folders, sf.name)

\* C27: a restoreBackup with overwrite = true replaces: a live entity with
\* the name (and parent) of a snapshot entity is removed, and the number of
\* live entities with that name (under that parent) does not grow.
C27_OverwriteReplaces ==
  OverwriteDone => (PromptsReplaced /\ RootFoldersReplaced)

\* what does hold: the prompts are replaced under every schema, the folders
\* where the schema does not turn the children of the deleted folder into
\* root folders
C27_ReplacesUnlessSetNull ==
  OverwriteDone =>
    /\ PromptsReplaced
    /\ onDelete # "SET NULL" => RootFoldersReplaced

\* some folder reference of the snapshot names no folder of the snapshot, or
\* a folder names itself as parent: the id map cannot hold it when it is
\* looked up
UnresolvableSnapshot(backupFolders, backupPrompts) ==
  \/ ~ParentsInSnapshot(backupFolders)
  \/ \E k \in 1..Len(backupPrompts) :
       backupPrompts[k].folder_id \notin {NULL} \cup SnapshotIds(backupFolders)

\* C28: a restoreBackup on a snapshot with a folder reference or a parent
\* reference that cannot be resolved, once it returns, has failed, and both
\* tables are what they were before the call.
C28_UnresolvedReferenceFailsWhole ==
  (last.op = "restoreBackup" /\ ~hung
     /\ UnresolvableSnapshot(last.args.backupFolders, last.args.backupPrompts)) =>
    /\ Failed(last.err)
    /\ Unchanged

\* Phase 1 had inserted a folder when a prompt's folder reference was found
\* unresolved: the restore failed with INVALID_INPUT and the folder is not in
\* the store
C28_Witness ==
  /\ last.op = "restoreBackup"
  /\ last.err.code = "INVALID_INPUT"
  /\ Len(last.args.backupFolders) >= 1
  /\ ParentsInSnapshot(last.args.backupFolders)
  /\ \E i \in 1..Len(last.log) : last.log[i][1] = "insert folder"
  /\ \E i \in 1..Len(last.log) : last.log[i][1] = "rollback"
  /\ Unchanged

\* ---------------------------------------------------------------- C29
Store == [folders |-> folders, prompts |-> prompts]

\* the store's content after the i-th commit (0: when the processes started)
StoreAfter(i) == IF i = 0 THEN pre ELSE race.commits[i].after

\* the store holds what the commits left, one after the other
SerialCommits ==
  /\ Store = StoreAfter(Len(race.commits))
  /\ \A i \in 1..Len(race.commits) : race.commits[i].before = StoreAfter(i - 1)

\* a process is between its first write and its COMMIT exactly while it
\* holds the write lock
OneWriterAtATime ==
  /\ race.lock \in {0} \cup Writers
  /\ \A w \in Writers : race.w[w].pc = "written" <=> race.lock = w

CommitsBy(w) == {i \in 1..Len(race.commits) : race.commits[i].by = w}

\* the i-th commit is the whole update its process asked for, made on the
\* row as the commit before left it, and nothing else
WholeUpdate(i) ==
  LET c == race.commits[i]
      a == race.w[c.by].args
  IN /\ a.id \in DOMAIN c.before.prompts
     /\ DOMAIN c.after.prompts = DOMAIN c.before.prompts
     /\ PatchedPrompt(c.before.prompts[a.id], c.after.prompts[a.id], a)
     /\ \A p \in DOMAIN c.before.prompts \ {a.id} : c.after.prompts[p] = c.before.prompts[p]
     /\ c.after.folders = c.before.folders

\* how a finished updatePrompt ended: with an error and no commit, or
\* without one and its one commit (none when it had nothing to change)
AllOrNothing(w) ==
  LET me == race.w[w]
      empty == me.args.name = AbsentName /\ me.args.ref = AbsentRef
  IN /\ me.attempt < maxRetries
     /\ me.pc # "done" => CommitsBy(w) = {}
     /\ me.pc = "done" /\ Failed(me.err) => CommitsBy(w) = {}
     /\ me.pc = "done" /\ ~Failed(me.err) =>
          Cardinality(CommitsBy(w)) = (IF empty THEN 0 ELSE 1)

\* C29: when processes update a prompt of one store at the same time, at most
\* one of them is inside a writing transaction at any moment; every update
\* ends either with an error and without a commit, or committed as a whole
\* (after retries, when the store was busy); and the store always holds
\* exactly what the commits left, each made on the result of the one before:
\* a row is never a mix of two updates.
C29_UpdatesSerialised ==
  /\ OneWriterAtATime
  /\ SerialCommits
  /\ \A w \in Writers :
       race.w[w].op = "updatePrompt" =>
         /\ AllOrNothing(w)
         /\ \A i \in CommitsBy(w) : WholeUpdate(i)

\* both processes updated the same prompt, one its title and the other its
\* folder; the second found the store busy, tried again and committed after
\* the first, and the row carries both changes
C29_Witness ==
  /\ \A w \in Writers :
       /\ race.w[w].op = "updatePrompt"
       /\ race.w[w].args.id = 101
       /\ race.w[w].pc = "done"
       /\ ~Failed(race.w[w].err)
  /\ race.w[1].args.name = MarkedName /\ race.w[1].args.ref = AbsentRef
  /\ race.w[2].args.name = AbsentName /\ race.w[2].args.ref = NULL
  /\ pre.prompts[101].folder_id = 1
  /\ race.w[2].attempt > 0
  /\ Len(race.commits) = 2
  /\ race.commits[1].by = 1 /\ race.commits[2].by = 2
  /\ prompts[101] = [title |-> MarkedName, folder_id |-> NULL]

\* a process gave up: the store was busy at each of its attempts
C29_GaveUp ==
  \E w \in Writers :
    /\ race.w[w].op = "updatePrompt"
    /\ race.w[w].pc = "done"
    /\ race.w[w].err = BusyErr
    /\ race.w[w].attempt = maxRetries - 1

\* ---------------------------------------------------------------- C30
\* the folder the i-th commit added
CreatedBy(i) ==
  CHOOSE f \in DOMAIN race.commits[i].after.folders :
    f \notin DOMAIN race.commits[i].before.folders

\* the i-th commit left its new folder under a folder the store holds
ParentCommitted(i) ==
  LET F == race.commits[i].after.folders
  IN F[CreatedBy(i)].parent_id \in DOMAIN F \cup {NULL}

\* the i-th commit left no second folder of its new folder's name and parent
NoTwinCommitted(i) ==
  LET F == race.commits[i].after.folders
      id == CreatedBy(i)
  IN \A f \in DOMAIN F \ {id} :
       ~(F[f].name = F[id].name /\ F[f].parent_id = F[id].parent_id)

\* process w called createFolder and no other process of the accessor did
\* anything: what changed under it, the host changed
AloneWithHost(w) ==
  /\ race.w[w].op = "createFolder"
  /\ \A o \in Writers \ {w} : race.w[o].pc = "idle"

\* the host wrote after createFolder's checks and before its transaction
\* committed
HostCameBetween(w) ==
  /\ AloneWithHost(w)
  /\ race.w[w].pc = "done"
  /\ race.hostWrites > 0
  /\ ~Failed(Precheck("createFolder", race.w[w].args, pre.folders, pre.prompts))
  /\ \A i \in CommitsBy(w) : i > 1

\* C30: when the host deletes the folder a createFolder call refers to, or
\* creates a sibling of the same name, after the call's precondition checks
\* and before its transaction, the transaction commits neither a folder
\* under a parent that is gone nor a second folder of that name under that
\* parent: the call fails instead.
C30_RaceCommitsNoBadFolder ==
  \A w \in Writers :
    AloneWithHost(w) =>
      \A i \in CommitsBy(w) : ParentCommitted(i) /\ NoTwinCommitted(i)

\* the half of C30 that holds: no folder is committed under a parent that is
\* gone
C30_NoDanglingCommitted ==
  \A w \in Writers :
    race.w[w].op = "createFolder" => \A i \in CommitsBy(w) : ParentCommitted(i)

\* the other half holds where the host's schema has an index that covers
\* every parent, the null parent too
C30_NoTwinUnderFullIndex ==
  \A w \in Writers :
    race.w[w].op = "createFolder" /\ race.unique = "all parents" =>
      \A i \in CommitsBy(w) : NoTwinCommitted(i)

\* the host deleted the parent in between and the call failed on the
\* store's foreign key
C30_ParentGoneFails ==
  \E w \in Writers :
    /\ HostCameBetween(w)
    /\ race.w[w].args.ref \notin DOMAIN folders \cup {NULL}
    /\ race.w[w].err = ConstraintErr
    /\ CommitsBy(w) = {}

\* ---------------------------------------------------------------- C31
\* the host has not taken any file of the call in progress
NeverAnswered ==
  \A i \in 1..Len(queue.written) :
    /\ queue.written[i] \notin queue.responses
    /\ \A k \in 1..Len(queue.applied) : queue.applied[k] # queue.written[i]

\* write() has ended; each of its attempts got as far as writing its file,
\* and no response to it ever appeared
EndedUnanswered ==
  /\ queue.pc = "done"
  /\ Failed(queue.err)
  /\ Len(queue.written) = Len(queue.thrown)
  /\ NeverAnswered

\* C31: a write() to which no response file ever appears waits 5 s and no
\* longer in each attempt, makes exactly 3 attempts, 1 s apart, and fails
\* with RESPONSE_TIMEOUT; no write() waits longer or tries more often.
C31_ThreeAttemptsThenTimeout ==
  /\ queue.elapsed <= timeoutMs
  /\ queue.attempt <= queueMaxRetries
  /\ \A i \in 1..Len(queue.waits) : queue.waits[i] <= timeoutMs
  /\ EndedUnanswered =>
       /\ Len(queue.written) = queueMaxRetries + 1
       /\ queue.waits = [i \in 1..(queueMaxRetries + 1) |-> timeoutMs]
       /\ queue.sleeps = [i \in 1..queueMaxRetries |-> queueRetryBackoffMs]
       /\ queue.err.code = "RESPONSE_TIMEOUT"

\* the host never answered and write() gave up after its third wait
C31_Witness ==
  /\ EndedUnanswered
  /\ queue.attempt = 2
  /\ queue.waits = <<5000, 5000, 5000>>
  /\ queue.sleeps = <<1000, 1000>>
  /\ queue.err.code = "RESPONSE_TIMEOUT"

\* ---------------------------------------------------------------- C32
\* C32: while the queue directory holds 1000 or more operation files, no
\* step of write() puts a new request file into it, and an attempt made
\* then is refused with QUEUE_FULL.
C32_FullQueueRejected ==
  [][(queue.pc = "attempt" /\ queue.access /\ operationFiles(queue) >= QueueDepthLimit) =>
       /\ queue'.mine \subseteq queue.mine
       /\ queue'.written = queue.written
       /\ (queue'.thrown # queue.thrown =>
             queue'.thrown = Append(queue.thrown, "QUEUE_FULL"))]_vars

\* what holds of the code: the same for more than 1000 operation files
C32_OverfullQueueRejected ==
  [][(queue.pc = "attempt" /\ queue.access /\ operationFiles(queue) > QueueDepthLimit) =>
       /\ queue'.mine \subseteq queue.mine
       /\ queue'.written = queue.written
       /\ (queue'.thrown # queue.thrown =>
             queue'.thrown = Append(queue.thrown, "QUEUE_FULL"))]_vars

\* ---------------------------------------------------------------- C33
\* how often the host has applied an operation of the call in progress
AppliedOfCall ==
  Cardinality({k \in 1..Len(queue.applied) :
                 \E i \in 1..Len(queue.written) : queue.applied[k] = queue.written[i]})

\* C33: every request file one write() call writes, in its first attempt and
\* in each retry, carries the operation id drawn at the start of the call
\* and so the same file name; a host that applies each operation id once
\* has applied the call's operation at most once.
C33_OneIdOneApplication ==
  /\ \A i \in 1..Len(queue.written) : queue.written[i] = queue.operationId
  /\ AppliedOfCall <= 1

\* the first attempt timed out, the second wrote its file again; the host
\* has taken what was written and the operation is applied once
C33_Witness ==
  /\ queue.pc = "done"
  /\ ~Failed(queue.err)
  /\ queue.thrown = <<"RESPONSE_TIMEOUT">>
  /\ queue.written = <<queue.operationId, queue.operationId>>
  /\ queue.mine = {}
  /\ AppliedOfCall = 1

\* ---------------------------------------------------------------- C40
\* C40: once an attempt of write() has failed with an error the catalogue
\* marks as not retryable, write() has ended with that error: it has not
\* slept after it and has made no further attempt.
C40_NonRetryableNotRetried ==
  \A i \in 1..Len(queue.thrown) :
    ~isRetryable(queue.thrown[i]) =>
      /\ i = Len(queue.thrown)
      /\ queue.pc = "done"
      /\ queue.err.code = queue.thrown[i]
      /\ Len(queue.sleeps) < i

\* what the code does instead: the catch block never asks whether the error
\* is retryable, so every failure before the third attempt is followed by a
\* sleep and another attempt
C40_EveryFailureRetried ==
  /\ Len(queue.sleeps) = queue.attempt
  /\ queue.pc = "done" /\ Failed(queue.err) => Len(queue.thrown) = queueMaxRetries + 1

\* ---------------------------------------------------------------- C34
\* the place of the first statement `ev` in the last call's log, 0 if none
Pos(ev) ==
  LET at == {i \in 1..Len(last.log) : last.log[i] = ev}
  IN IF at = {} THEN 0 ELSE CHOOSE i \in at : \A j \in at : i <= j

\* a recursive deleteFolder has returned without error
RecursiveDeleteDone == Succeeded /\ last.op = "deleteFolder" /\ last.args.flag

\* the folder asked for and the folders below it, as the call found them
DeletedSubtree == Subtree(pre.folders, {last.args.id})

HeldPrompts(f) == \E p \in DOMAIN pre.prompts : pre.prompts[p].folder_id = f

\* every folder of the subtree is deleted, a child before its parent, the
\* folder asked for after all others
FoldersBottomUp ==
  /\ \A f \in DeletedSubtree : Pos(<<"delete folder", f>>) > 0
  /\ \A c \in DeletedSubtree :
       pre.folders[c].parent_id \in DeletedSubtree /\ c # last.args.id =>
         Pos(<<"delete folder", c>>) < Pos(<<"delete folder", pre.folders[c].parent_id>>)
  /\ last.log[Len(last.log) - 2] = <<"delete folder", last.args.id>>

\* C34 as stated: in a recursive folder delete the prompts of every folder
\* of the subtree are deleted before any folder below the target is, then
\* the folders, children before parents, the target last.
C34_PromptsBeforeAnyFolder ==
  RecursiveDeleteDone =>
    /\ FoldersBottomUp
    /\ \A f \in DeletedSubtree, g \in DeletedSubtree \ {last.args.id} :
         HeldPrompts(f) =>
           /\ Pos(<<"delete prompts in", f>>) > 0
           /\ Pos(<<"delete prompts in", f>>) < Pos(<<"delete folder", g>>)

\* C34 (amended): the subtree is deleted folder by folder, depth first: for
\* each folder first everything below it, then its own prompts, then the
\* folder; so a folder's prompts go before the folder and after its child
\* folders, children go before parents and the target goes last.
C34_DepthFirstPostOrder ==
  RecursiveDeleteDone =>
    /\ FoldersBottomUp
    /\ \A f \in DeletedSubtree :
         /\ Pos(<<"delete prompts in", f>>) > 0
         /\ Pos(<<"delete prompts in", f>>) < Pos(<<"delete folder", f>>)
         /\ \A c \in DeletedSubtree :
              pre.folders[c].parent_id = f /\ c # last.args.id =>
                Pos(<<"delete folder", c>>) < Pos(<<"delete prompts in", f>>)

\* a folder with a prompt, a child and a grandchild was deleted recursively
C34_Witness ==
  /\ RecursiveDeleteDone
  /\ Cardinality(DeletedSubtree) = 3
  /\ HeldPrompts(last.args.id)
  /\ \E c \in DeletedSubtree : pre.folders[c].parent_id \in DeletedSubtree \ {last.args.id}
  /\ folders = EmptyTable /\ prompts = EmptyTable

\* ---------------------------------------------------------------- C35
\* the last call found the store busy, tried again and succeeded
SucceededAfterRetry ==
  /\ Succeeded
  /\ last.op \in ReissuedOps
  /\ last.args.issue = 1
  /\ last.attempts > 1

NewFolders == DOMAIN folders \ DOMAIN pre.folders
NewPrompts == DOMAIN prompts \ DOMAIN pre.prompts

C35_WitnessRestore ==
  /\ SucceededAfterRetry
  /\ last.op = "restoreBackup"
  /\ last.attempts = 2
  /\ last.importedFolders = 1 /\ last.importedPrompts = 1

\* ---------------------------------------------------------------- C36
\* the commits a process made after the host wrote in its window
RacedCommits(w) ==
  {i \in CommitsBy(w) : \E k \in 1..(i - 1) : race.commits[k].by = 0}

\* C36: when the host reparents a folder between the cycle check of
\* updateFolder and its transaction, the hierarchy the transaction commits
\* is still acyclic: no folder is its own ancestor.
C36_RacedReparentAcyclic ==
  \A w \in Writers :
    race.w[w].op = "updateFolder" =>
      \A i \in RacedCommits(w) :
        LET F == race.commits[i].after.folders
        IN \A f \in DOMAIN F : f \notin Ancestors(F, f)

\* without the host in the window the reparent keeps the hierarchy acyclic
C36_UnracedReparentAcyclic ==
  \A w \in Writers :
    race.w[w].op = "updateFolder" =>
      \A i \in CommitsBy(w) \ RacedCommits(w) :
        LET F == race.commits[i].after.folders
        IN \A f \in DOMAIN F : f \notin Ancestors(F, f)

\* ---------------------------------------------------------------- C37
\* process w passed the checks of an update or a move, the host then deleted
\* the prompt or the folder the request names, and the call has ended
TargetDeletedInWindow(w) ==
  LET a == race.w[w].args
  IN /\ race.w[w].op \in {"updatePrompt", "movePrompt"}
     /\ race.w[w].pc = "done"
     /\ ~Failed(Precheck(race.w[w].op, a, pre.folders, pre.prompts))
     /\ race.hostWrites > 0
     /\ \/ a.id \notin DOMAIN prompts
        \/ a.ref \in DOMAIN pre.folders \ DOMAIN folders

\* the request carries a field to write
WritesSomething(w) ==
  \/ race.w[w].op = "movePrompt"
  \/ race.w[w].args.name # AbsentName
  \/ race.w[w].args.ref # AbsentRef

\* C37: when the host deletes the prompt, or the folder the request names,
\* after the existence checks of updatePrompt or movePrompt and before the
\* transaction, the call ends in an error, not in success.
C37_DeletedInWindowNotSuccess ==
  \A w \in Writers : TargetDeletedInWindow(w) => Failed(race.w[w].err)

\* the part of C37 that holds: a request that writes a field fails
C37_WritingCallFails ==
  \A w \in Writers :
    TargetDeletedInWindow(w) /\ WritesSomething(w) =>
      /\ Failed(race.w[w].err)
      /\ CommitsBy(w) = {}

\* the read-back found the prompt gone after a move
C37_MoveFoundPromptGone ==
  \E w \in Writers :
    /\ TargetDeletedInWindow(w)
    /\ race.w[w].op = "movePrompt"
    /\ race.w[w].args.id \notin DOMAIN prompts
    /\ race.w[w].err = VerifyErr("prompt was moved")

\* ---------------------------------------------------------------- C38
\* the folder reached from id by n steps along parent_id inside the snapshot
RECURSIVE SnapshotAncestor(_, _, _)
SnapshotAncestor(backupFolders, id, n) ==
  LET i == FindById(backupFolders, id)
  IN IF n = 0 \/ id = NULL THEN id
     ELSE IF i = 0 THEN NULL
     ELSE SnapshotAncestor(backupFolders, backupFolders[i].parent_id, n - 1)

\* some folder of the snapshot is its own ancestor
CyclicSnapshot(backupFolders) ==
  \E i \in 1..Len(backupFolders), n \in 1..Len(backupFolders) :
    SnapshotAncestor(backupFolders, backupFolders[i].id, n) = backupFolders[i].id

\* C38: restoreBackup returns for every snapshot; on a snapshot whose parent
\* references form a cycle it returns with a failure.
C38_CyclicSnapshotFails ==
  last.op = "restoreBackup" =>
    /\ ~hung
    /\ CyclicSnapshot(last.args.backupFolders) => Failed(last.err)

\* the part of C38 that holds: a snapshot without a cycle never hangs, and a
\* cyclic snapshot of one folder, which the sort has nothing to compare
\* with, is refused
C38_HangsOnlyOnComparedCycle ==
  last.op = "restoreBackup" =>
    /\ hung => CyclicSnapshot(last.args.backupFolders)
                /\ Len(last.args.backupFolders) >= 2
    /\ (~hung /\ CyclicSnapshot(last.args.backupFolders)) =>
         /\ Len(last.args.backupFolders) = 1
         /\ Failed(last.err)
         /\ Unchanged

\* restoreBackup was given two folders that are each other's parent and
\* never returned
C38_TwoFolderCycleHangs ==
  /\ last.op = "restoreBackup"
  /\ hung
  /\ Len(last.args.backupFolders) = 2
  /\ last.args.backupFolders[1].parent_id = last.args.backupFolders[2].id
  /\ last.args.backupFolders[2].parent_id = last.args.backupFolders[1].id
  /\ last.args.backupFolders[1].id # last.args.backupFolders[2].id

\* ---------------------------------------------------------------- C39
\* some folder of F is its own ancestor
CyclicStore(F) == \E f \in DOMAIN F : f \in Ancestors(F, f)

\* the last call was a recursive deleteFolder that got as far as its
\* transaction
RecursiveDeleteRan ==
  /\ last.op = "deleteFolder"
  /\ last.args.flag
  /\ last.attempts >= 1

\* C39: on every store, one with a parent cycle included, the walk of the
\* recursive delete and the walk of the cycle check end by themselves: no
\* call runs until the call stack is used up.
C39_WalksEndOnEveryStore ==
  last.op \in {"deleteFolder", "updateFolder"} =>
    /\ ~hung
    /\ \A i \in 1..Len(last.tried) : last.tried[i] # StackErr

\* the part of C39 that holds: the cycle check of updateFolder ends on every
\* store, and the recursive delete uses up the call stack only on a store with
\* a parent cycle, which it then leaves as it was
C39_OnlyDeleteOnCycleOverflows ==
  /\ last.op = "updateFolder" =>
       ~hung /\ \A i \in 1..Len(last.tried) : last.tried[i] # StackErr
  /\ (last.op = "deleteFolder" /\ last.err = StackErr) =>
       /\ last.args.flag
       /\ CyclicStore(pre.folders)
       /\ Unchanged

\* the cycle check walked into a cycle that does not hold the folder, found
\* it was going round and answered; the reparent went through
C39_CheckLeftCycle ==
  /\ last.op = "updateFolder"
  /\ ~Failed(last.err)
  /\ last.args.ref \in DOMAIN pre.folders
  /\ last.args.ref \in Ancestors(pre.folders, last.args.ref)
  /\ folders[last.args.id].parent_id = last.args.ref

\* the recursive delete of a folder on a cycle used up the call stack
C39_DeleteOnCycleOverflowed ==
  /\ RecursiveDeleteRan
  /\ last.args.id \in Ancestors(pre.folders, last.args.id)
  /\ last.err = StackErr

====
